---- MODULE Spec2Model ----
(***************************************************************************)
(* The four edge functions of the trial-matching pipeline (parse-ccd,      *)
(* extract-facts, search-trials, rank-summarize-trials) as request         *)
(* handlers: one request is received, the handler runs up to its outbound  *)
(* fetch, the upstream service answers, and the handler responds.          *)
(*                                                                         *)
(* JSON values are tagged records.  A string the code inspects character   *)
(* by character (object keys in de-identification, birthDate in the parse  *)
(* stage) is a tuple of one-character strings.                             *)
(***************************************************************************)
EXTENDS Integers, Sequences, FiniteSets, TLC

VARIABLES
  fn,        \* which edge function serves the request
  env,       \* the deployment: [apiKey: GOOGLE_API_KEY is set, year: the clock's year]
  req,       \* the request: [method, contentType, body]
  upstream,  \* what the upstream service (LLM or registry) answers when asked
  pc,        \* the handler's position: "boot", "received", "awaiting", "responded", "crashed"
  outbound,  \* the outbound requests issued so far, in order
  resp,      \* the response, once pc = "responded"
  \* the browser client
  upload,      \* the UploadData component: [status, input]
  page,        \* the Home component: [processingStep, errorMessage, initialParsedData,
               \*   extractedFacts, filters, rawTrials, rankedTrials]
  calls,       \* the function invocations awaiting their response
  issued,      \* every invocation made so far, in order
  lastExtract, \* how the extract invocation that completed last ended: "none", "ok", "failed"
  \* the object graph of extract-facts
  heap,        \* the arrays and objects allocated so far, by address
  locals       \* the handler's local variables: primitives, or references into heap

clientVars == <<upload, page, calls, issued, lastExtract>>

heapVars == <<heap, locals>>

vars == <<fn, env, req, upstream, pc, outbound, resp, clientVars, heapVars>>

-----------------------------------------------------------------------------
(* JSON values *)

Undefined == [t |-> "undefined"]
JNull == [t |-> "null"]
JBool(b) == [t |-> "boolean", b |-> b]
JNum(n) == [t |-> "number", n |-> n]
JStr(s) == [t |-> "string", s |-> s]
JArr(items) == [t |-> "array", items |-> items]
JObj(fields) == [t |-> "object", fields |-> fields]

EmptyFields == [k \in {} |-> Undefined]

IsArray(v) == v.t = "array"
IsObject(v) == v.t = "object"

\* v.key as JavaScript reads it from an object: undefined when the key is absent.
\* (Reading a property of undefined or null throws; callers check IsNullish first.)
Get(v, key) ==
  IF v.t = "object" /\ key \in DOMAIN v.fields THEN v.fields[key] ELSE Undefined

IsNullish(v) == v.t \in {"undefined", "null"}

\* JavaScript truthiness of a JSON value.
Truthy(v) ==
  CASE v.t \in {"undefined", "null"} -> FALSE
    [] v.t = "boolean" -> v.b
    [] v.t = "number" -> v.n # 0
    [] v.t = "string" -> v.s # <<>>
    [] OTHER -> TRUE

-----------------------------------------------------------------------------
(* The browser client after construction (page.tsx useState, upload-data.tsx useState) *)

DefaultFilters == JObj([recruitingStatus |-> JStr(<<"RECRUITING">>)])

ClientAtRest ==
  /\ upload = [status |-> "idle", input |-> "none"]
  /\ page = [processingStep |-> "idle", errorMessage |-> JNull,
             initialParsedData |-> JNull, extractedFacts |-> JNull,
             filters |-> DefaultFilters, rawTrials |-> JArr(<<>>), rankedTrials |-> JArr(<<>>)]
  /\ calls = {}
  /\ issued = <<>>
  /\ lastExtract = "none"

\* No object has been allocated and no handler is running.
NoLocals == [at |-> "start"]

HeapAtRest == heap = <<>> /\ locals = NoLocals

-----------------------------------------------------------------------------
(* extract-facts: de-identification *)

UpperLetters ==
  <<"A","B","C","D","E","F","G","H","I","J","K","L","M",
    "N","O","P","Q","R","S","T","U","V","W","X","Y","Z">>
LowerLetters ==
  <<"a","b","c","d","e","f","g","h","i","j","k","l","m",
    "n","o","p","q","r","s","t","u","v","w","x","y","z">>

LowerChar(c) ==
  IF \E i \in DOMAIN UpperLetters : UpperLetters[i] = c
    THEN LowerLetters[CHOOSE i \in DOMAIN UpperLetters : UpperLetters[i] = c]
    ELSE c

\* String.prototype.toLowerCase, character by character.
ToLowerCase(s) == [i \in 1..Len(s) |-> LowerChar(s[i])]

IDENTIFYING_KEYS ==
  {
    <<"n","a","m","e">>,
    <<"f","i","r","s","t","N","a","m","e">>,
    <<"l","a","s","t","N","a","m","e">>,
    <<"p","a","t","i","e","n","t","N","a","m","e">>,
    <<"p","a","r","t","i","c","i","p","a","n","t","N","a","m","e">>,
    <<"m","r","n">>,
    <<"m","e","d","i","c","a","l","R","e","c","o","r","d","N","u","m","b","e","r">>,
    <<"i","d","e","n","t","i","f","i","e","r">>,
    <<"i","d">>,
    <<"d","o","b">>,
    <<"b","i","r","t","h","D","a","t","e">>,
    <<"d","a","t","e","O","f","B","i","r","t","h">>,
    <<"a","d","d","r","e","s","s">>,
    <<"s","t","r","e","e","t","A","d","d","r","e","s","s">>,
    <<"c","i","t","y">>,
    <<"c","o","u","n","t","y">>,
    <<"p","o","s","t","a","l","C","o","d","e">>,
    <<"p","h","o","n","e">>,
    <<"t","e","l","e","p","h","o","n","e">>,
    <<"e","m","a","i","l">>,
    <<"s","s","n">>,
    <<"s","o","c","i","a","l","S","e","c","u","r","i","t","y","N","u","m","b","e","r">>,
    <<"h","e","a","l","t","h","P","l","a","n","B","e","n","e","f","i","c","i","a","r","y","N","u","m","b","e","r">>,
    <<"a","c","c","o","u","n","t","N","u","m","b","e","r">>,
    <<"c","e","r","t","i","f","i","c","a","t","e","L","i","c","e","n","s","e","N","u","m","b","e","r">>,
    <<"v","e","h","i","c","l","e","I","d","e","n","t","i","f","i","e","r">>,
    <<"d","e","v","i","c","e","I","d","e","n","t","i","f","i","e","r">>,
    <<"u","r","l">>,
    <<"i","p","A","d","d","r","e","s","s">>,
    <<"b","i","o","m","e","t","r","i","c","I","d","e","n","t","i","f","i","e","r">>,
    <<"f","i","n","g","e","r","p","r","i","n","t">>,
    <<"v","o","i","c","e","p","r","i","n","t">>,
    <<"p","h","o","t","o">>,
    <<"i","m","a","g","e">>
  }

\* JSON.parse(JSON.stringify(v)): a property whose value is undefined is dropped,
\* an undefined array element becomes null, everything else is copied.
RECURSIVE JsonClone(_)
JsonClone(v) ==
  CASE v.t = "array" ->
         JArr([i \in 1..Len(v.items) |->
                 IF v.items[i].t = "undefined" THEN JNull ELSE JsonClone(v.items[i])])
    [] v.t = "object" ->
         JObj([k \in {k \in DOMAIN v.fields : v.fields[k].t # "undefined"} |->
                 JsonClone(v.fields[k])])
    [] OTHER -> v

\* Mutant: the key is looked up as spelled, without toLowerCase.
IsIdentifyingKey_AsSpelled(key) == key \in IDENTIFYING_KEYS

\* Line 91: IDENTIFYING_KEYS.has(key.toLowerCase())
IsIdentifyingKey(key) == ToLowerCase(key) \in IDENTIFYING_KEYS

\* Mutant: null elements are filtered out of arrays before mapping.
RECURSIVE deIdentifyDataRecursive_DropsNulls(_)
deIdentifyDataRecursive_DropsNulls(data) ==
  IF IsArray(data)
    THEN JArr(SelectSeq([i \in 1..Len(data.items) |->
                           deIdentifyDataRecursive_DropsNulls(data.items[i])],
                        LAMBDA x : x.t # "null"))
  ELSE IF IsObject(data)
    THEN JObj([key \in {k \in DOMAIN data.fields : ~IsIdentifyingKey(k)} |->
                 deIdentifyDataRecursive_DropsNulls(data.fields[key])])
  ELSE data

RECURSIVE deIdentifyDataRecursive(_)
deIdentifyDataRecursive(data) ==
  IF IsArray(data)
    THEN JArr([i \in 1..Len(data.items) |-> deIdentifyDataRecursive(data.items[i])])
  ELSE IF IsObject(data)
    THEN JObj([key \in {k \in DOMAIN data.fields : ~IsIdentifyingKey(k)} |->
                 deIdentifyDataRecursive(data.fields[key])])
  ELSE data

deIdentifyData(inputData) == deIdentifyDataRecursive(JsonClone(inputData))

-----------------------------------------------------------------------------
(* Texts: a text is a tuple of pieces.  Lit(s) is the literal text s (itself a  *)
(* tuple of one-character or longer strings); Ser(v) is JSON.stringify(v).      *)
(* The texts drawn as inputs hold at most one piece that is not whitespace.     *)

Lit(s) == [p |-> "lit", s |-> s]
Ser(v) == [p |-> "json", v |-> v]

Space == Lit(<<" ">>)
Newline == Lit(<<"\n">>)
IsWhitespace(piece) == piece = Space \/ piece = Newline

RECURSIVE TrimStart(_)
TrimStart(text) ==
  IF text # <<>> /\ IsWhitespace(Head(text)) THEN TrimStart(Tail(text)) ELSE text

RECURSIVE TrimEnd(_)
TrimEnd(text) ==
  IF text # <<>> /\ IsWhitespace(text[Len(text)])
    THEN TrimEnd(SubSeq(text, 1, Len(text) - 1))
    ELSE text

\* String.prototype.trim
Trim(text) == TrimEnd(TrimStart(text))

\* The first and the last character of a piece.
FirstChar(piece) ==
  IF piece.p = "lit" THEN Head(piece.s)
  ELSE CASE piece.v.t = "object" -> "{"
         [] piece.v.t = "array" -> "["
         [] piece.v.t = "string" -> "\""
         [] OTHER -> "literal"
LastChar(piece) ==
  IF piece.p = "lit" THEN piece.s[Len(piece.s)]
  ELSE CASE piece.v.t = "object" -> "}"
         [] piece.v.t = "array" -> "]"
         [] piece.v.t = "string" -> "\""
         [] OTHER -> "literal"

StartsWith(text, c) == text # <<>> /\ FirstChar(Head(text)) = c
EndsWith(text, c) == text # <<>> /\ LastChar(text[Len(text)]) = c

\* A result that is a value or a thrown exception.
Ok(v) == [ok |-> TRUE, v |-> v]
Throws(msg) == [ok |-> FALSE, msg |-> msg]

\* JSON.parse: surrounding whitespace is skipped; one serialized value parses to
\* what JSON.stringify kept of it, anything else is a SyntaxError.
\* (JSON.stringify(undefined) is not a text at all.)
JsonParse(text) ==
  LET core == Trim(text) IN
  IF Len(core) = 1 /\ core[1].p = "json" /\ core[1].v.t # "undefined"
    THEN Ok(JsonClone(core[1].v))
    ELSE Throws(<<"Unexpected token in JSON">>)

-----------------------------------------------------------------------------
(* Requests and responses *)

\* req.body is null when the request carries no body.
NoBody == [present |-> FALSE, text |-> <<>>]
Body(text) == [present |-> TRUE, text |-> text]

\* await req.text(), await req.json()
ReqText(r) == r.body.text
ReqJson(r) == JsonParse(r.body.text)

corsHeaders ==
  { <<"Access-Control-Allow-Origin", "*">>,
    <<"Access-Control-Allow-Headers", "authorization, x-client-info, apikey, content-type">>,
    <<"Access-Control-Allow-Methods", "POST, OPTIONS">> }

JsonContentType == <<"Content-Type", "application/json">>

NoResponse == [status |-> 0, headers |-> {}, body |-> <<>>]

\* Mutant: the response is built without spreading corsHeaders.
JsonResponse_ContentTypeOnly(status, value) ==
  [status |-> status, headers |-> {JsonContentType}, body |-> <<Ser(value)>>]

\* new Response(JSON.stringify(value), { headers: {...corsHeaders, 'Content-Type': ...}, status })
JsonResponse(status, value) ==
  [status |-> status, headers |-> corsHeaders \cup {JsonContentType}, body |-> <<Ser(value)>>]

\* Mutant: the message is put under "message".
ErrorBody_AsMessage(msg) == JObj([message |-> JStr(msg)])

\* JSON.stringify({ error: msg })
ErrorBody(msg) == JObj([error |-> JStr(msg)])

\* new Response('ok', { headers: corsHeaders })
PreflightResponse == [status |-> 200, headers |-> corsHeaders, body |-> <<Lit(<<"ok">>)>>]

\* The value a client decodes from a JSON response.
ResponseJson(r) == JsonParse(r.body)

HasErrorField(r) ==
  /\ ResponseJson(r).ok
  /\ ResponseJson(r).v.t = "object"
  /\ "error" \in DOMAIN ResponseJson(r).v.fields

\* What the upstream service answers: a network failure (fetch rejects), or an
\* HTTP response [ok, status, text], whose text response.json() parses.
NetworkError == [arrives |-> FALSE, ok |-> FALSE, status |-> 0, text |-> <<>>]
HttpReply(status, text) ==
  [arrives |-> TRUE, ok |-> status \in 200..299, status |-> status, text |-> text]

-----------------------------------------------------------------------------
(* The handlers' shared shape *)

\* The outcome of the part of a handler that runs before its outbound fetch:
\* a response, or the outbound request it issues.
Respond(r) == [done |-> TRUE, resp |-> r]
Fetch(service, method, payload) ==
  [done |-> FALSE, fetch |-> [service |-> service, method |-> method, payload |-> payload]]

Finish(outcome) ==
  IF outcome.done
    THEN /\ pc' = "responded"
         /\ resp' = outcome.resp
         /\ UNCHANGED outbound
    ELSE /\ pc' = "awaiting"
         /\ outbound' = Append(outbound, outcome.fetch)
         /\ UNCHANGED resp

\* The Gemini generateContent response body that carries `text` as its first part.
GeminiData(text) ==
  JObj([candidates |->
    JArr(<<JObj([content |-> JObj([parts |-> JArr(<<JObj([text |-> JStr(text)])>>)])])>>)])

\* Mutant: a response without generated text counts as an empty list.
FirstPartText_Lenient(data, emptyMsg) == Ok(JStr(<<Ser(JArr(<<>>))>>))

\* candidates[0].content.parts[0].text behind the handlers' explicit checks:
\* the text (possibly undefined), or the Error thrown.
FirstPartText(data, emptyMsg) ==
  LET candidates == Get(data, "candidates") IN
  IF ~Truthy(data) \/ ~Truthy(candidates) THEN Throws(emptyMsg)
  ELSE IF ~IsArray(candidates) THEN Throws(<<"TypeError">>)
  ELSE IF Len(candidates.items) = 0 THEN Throws(emptyMsg)
  ELSE IF IsNullish(candidates.items[1]) THEN Throws(<<"TypeError">>)
  ELSE LET content == Get(candidates.items[1], "content")
           parts == Get(content, "parts") IN
       IF ~Truthy(content) \/ ~Truthy(parts) THEN Throws(emptyMsg)
       ELSE IF ~IsArray(parts) THEN Throws(<<"TypeError">>)
       ELSE IF Len(parts.items) = 0 THEN Throws(emptyMsg)
       ELSE IF IsNullish(parts.items[1]) THEN Throws(<<"TypeError">>)
       ELSE Ok(Get(parts.items[1], "text"))

\* JSON.parse(x) of a value x read from a response: a string is parsed, anything
\* else is first converted to a string, of which only null, booleans and numbers
\* are JSON.
JsonParseValue(x) ==
  CASE x.t = "string" -> JsonParse(x.s)
    [] x.t \in {"null", "boolean", "number"} -> Ok(x)
    [] OTHER -> Throws(<<"Unexpected token in JSON">>)

-----------------------------------------------------------------------------
(* extract-facts: the handler *)

ExtractFailure(msg) ==
  JsonResponse(500, ErrorBody(<<"Fact extraction failed: ">> \o msg))

\* Lines 125-191: the body check, req.json(), de-identification, the prompt,
\* the API key check and the call of the model.
ExtractBeforeFetch(r, e) ==
  IF r.method = "OPTIONS" THEN Respond(PreflightResponse)
  ELSE IF ~r.body.present
    THEN Respond(JsonResponse(400, ErrorBody(<<"Missing request body">>)))
  ELSE LET parsedInputData == ReqJson(r) IN
    IF ~parsedInputData.ok THEN Respond(ExtractFailure(parsedInputData.msg))
    ELSE LET deIdentifiedData == deIdentifyData(JsonClone(parsedInputData.v)) IN
      IF ~e.apiKey
        THEN Respond(ExtractFailure(<<"GOOGLE_API_KEY is not configured in Supabase secrets.">>))
        ELSE Fetch("llm", "POST", deIdentifiedData)

\* Lines 193-220: the SDK throws on a failed call; the candidate checks; JSON.parse.
ExtractAfterFetch(reply) ==
  IF ~reply.arrives \/ ~reply.ok THEN ExtractFailure(<<"[GoogleGenerativeAI Error]">>)
  ELSE LET response == JsonParse(reply.text) IN
    IF ~response.ok THEN ExtractFailure(response.msg)
    ELSE LET text == FirstPartText(response.v, <<"Gemini returned an empty or invalid response.">>) IN
      IF ~text.ok THEN ExtractFailure(text.msg)
      ELSE LET extractedFacts == JsonParseValue(text.v) IN
        IF ~extractedFacts.ok THEN ExtractFailure(extractedFacts.msg)
        ELSE JsonResponse(200, extractedFacts.v)

ExtractHandleRequest ==
  /\ fn = "extract-facts"
  /\ pc = "received"
  /\ Finish(ExtractBeforeFetch(req, env))
  /\ UNCHANGED <<fn, env, req, upstream, clientVars, heapVars>>

ExtractHandleReply ==
  /\ fn = "extract-facts"
  /\ pc = "awaiting"
  /\ pc' = "responded"
  /\ resp' = ExtractAfterFetch(upstream)
  /\ UNCHANGED <<fn, env, req, upstream, outbound, clientVars, heapVars>>

-----------------------------------------------------------------------------
(* parse-ccd: the handler.  Strings of the LLM's JSON are tuples of characters. *)

S_string == <<"s","t","r","i","n","g">>
S_NA == <<"N","/","A">>
S_objectObject == <<"[","o","b","j","e","c","t"," ","O","b","j","e","c","t","]">>
S_YYYYMMDD == <<"Y","Y","Y","Y","-","M","M","-","D","D">>

\* headers.get('content-type').includes(word): a content type is a tuple of pieces.
Includes(contentType, word) == \E i \in 1..Len(contentType) : contentType[i] = word

XmlDoc == <<Lit(<<"<", "ClinicalDocument/", ">">>)>>
TestModeText == <<Lit(<<"TEST_MODE">>)>>

\* Lines 69-77 and 89-96: the XML wrapped in a JSON object, or the raw text.
UnwrapXml(jsonObj, rawText) ==
  IF Truthy(jsonObj) /\ Get(jsonObj, "xml").t = "string"
    THEN Get(jsonObj, "xml").s
    ELSE rawText

\* Lines 47-105: ccdData, or the 400 response that ends the request.
ReadCcdData(r) ==
  LET contentType == r.contentType
      rawText == ReqText(r) IN
  IF rawText = <<>> \/ Trim(rawText) = <<>>
    THEN Throws(<<"Empty request body">>)
  ELSE IF Includes(contentType, "xml") THEN Ok(rawText)
  ELSE IF Includes(contentType, "json")
    THEN LET jsonObj == JsonParse(rawText) IN
         IF jsonObj.ok THEN Ok(UnwrapXml(jsonObj.v, rawText))
         ELSE Throws(<<"Invalid JSON in request body">>)
  ELSE IF StartsWith(Trim(rawText), "{") /\ EndsWith(Trim(rawText), "}")
    THEN LET jsonObj == JsonParse(rawText) IN
         IF jsonObj.ok THEN Ok(UnwrapXml(jsonObj.v, rawText)) ELSE Ok(rawText)
  ELSE Ok(rawText)

\* Lines 124-160
mockResponse ==
  JObj([demographics |->
          JObj([name |-> JStr(<<"John Doe">>), gender |-> JStr(<<"Male">>),
                birthDate |-> JStr(<<"1","9","5","0","-","0","1","-","0","1">>),
                age |-> JNum(73), address |-> JStr(<<"123 Main St, Anytown">>),
                zipCode |-> JStr(<<"12345">>), phone |-> JStr(<<"555-123-4567">>)]),
        conditions |-> JArr(<<JStr(<<"Hypertension">>), JStr(<<"Type 2 Diabetes">>),
                              JStr(<<"Hyperlipidemia">>)>>),
        medications |-> JArr(<<JStr(<<"Lisinopril 10mg daily">>),
                               JStr(<<"Metformin 500mg twice daily">>),
                               JStr(<<"Atorvastatin 20mg daily">>)>>),
        allergies |-> JArr(<<JStr(<<"Penicillin">>), JStr(<<"Sulfa drugs">>)>>),
        procedures |-> JArr(<<JStr(<<"Colonoscopy (2020-03-15)">>),
                              JStr(<<"Cataract surgery (2019-07-10)">>)>>),
        vitalSigns |->
          JObj([height |-> JStr(<<"5'10 (178 cm)">>), weight |-> JStr(<<"180 lbs (82 kg)">>),
                bloodPressure |-> JStr(<<"130/82 mmHg">>),
                temperature |-> JStr(<<"98.6 F (37 C)">>), pulse |-> JStr(<<"72 bpm">>),
                respiratoryRate |-> JStr(<<"16 breaths/min">>)])])

\* Line 119
BYPASS_GEMINI == FALSE

\* Mutant: the missing key is reported by the general error handler.
MissingApiKeyResponse_Unexpected ==
  JsonResponse(500, ErrorBody(<<"An unexpected error occurred.">>))

MissingApiKeyResponse ==
  JsonResponse(500, ErrorBody(<<"Server configuration error: Missing API key.">>))

\* Lines 25-245: preflight, the API key check, the body, the test-mode bypass and
\* the call of the Gemini API with the prompt that embeds ccdData.
ParseBeforeFetch(r, e) ==
  IF r.method = "OPTIONS" THEN Respond(PreflightResponse)
  ELSE IF ~e.apiKey THEN Respond(MissingApiKeyResponse)
  ELSE LET ccdData == ReadCcdData(r) IN
    IF ~ccdData.ok THEN Respond(JsonResponse(400, ErrorBody(ccdData.msg)))
    ELSE IF BYPASS_GEMINI \/ ccdData.v = TestModeText
      THEN Respond(JsonResponse(200, mockResponse))
      ELSE Fetch("llm", "POST", ccdData.v)

\* obj with obj[key] = val
Put(obj, key, val) ==
  JObj([k \in DOMAIN obj.fields \cup {key} |-> IF k = key THEN val ELSE obj.fields[k]])

\* if (obj.key === 'string') obj.key = null, for each key of keys in turn.
RECURSIVE NullPlaceholders(_, _)
NullPlaceholders(obj, keys) ==
  IF keys = <<>> THEN obj
  ELSE NullPlaceholders(
         IF Get(obj, Head(keys)) = JStr(S_string) THEN Put(obj, Head(keys), JNull) ELSE obj,
         Tail(keys))

DecimalDigits == <<"0","1","2","3","4","5","6","7","8","9">>
IsDigit(c) == \E i \in DOMAIN DecimalDigits : DecimalDigits[i] = c
DigitValue(c) == (CHOOSE i \in DOMAIN DecimalDigits : DecimalDigits[i] = c) - 1

\* The number that the leading decimal digits of s spell, after acc; the count
\* of digits read is in `read`.
RECURSIVE LeadingDigits(_, _, _)
LeadingDigits(s, acc, read) ==
  IF s # <<>> /\ IsDigit(Head(s))
    THEN LeadingDigits(Tail(s), 10 * acc + DigitValue(Head(s)), read + 1)
    ELSE [n |-> acc, read |-> read]

RECURSIVE SkipSpaces(_)
SkipSpaces(s) == IF s # <<>> /\ Head(s) = " " THEN SkipSpaces(Tail(s)) ELSE s

\* parseInt(s): leading whitespace, an optional sign, then decimal digits; NaN
\* when no digit follows.
ParseInt(s) ==
  LET body == SkipSpaces(s)
      negative == body # <<>> /\ Head(body) = "-"
      unsigned == IF body # <<>> /\ Head(body) \in {"-", "+"} THEN Tail(body) ELSE body
      digits == LeadingDigits(unsigned, 0, 0) IN
  IF digits.read = 0 THEN [nan |-> TRUE, n |-> 0]
  ELSE [nan |-> FALSE, n |-> IF negative THEN 0 - digits.n ELSE digits.n]

\* s.substring(from, to)
Substring(s, from, to) ==
  SubSeq(s, from + 1, IF to < Len(s) THEN to ELSE Len(s))

\* Lines 296-310: the age recomputed from birthDate, or null.  A birthDate that
\* is not a string has no substring method: the TypeError is caught (line 305).
RecomputedAge(birthDate, currentYear) ==
  IF Truthy(birthDate) /\ birthDate # JStr(S_YYYYMMDD)
    THEN IF birthDate.t # "string" THEN JNull
         ELSE LET birthYear == ParseInt(Substring(birthDate.s, 0, 4)) IN
              IF ~birthYear.nan /\ birthYear.n > 1900 /\ birthYear.n < currentYear
                THEN JNum(currentYear - birthYear.n)
                ELSE JNull
    ELSE JNull

\* Mutant: only an age above 120 is suspicious.
SuspiciousAge_Over120Only(age) == age.t = "number" /\ age.n > 120

\* Line 292
SuspiciousAge(age) == age.t = "number" /\ (age.n < 0 \/ age.n > 120 \/ age.n < 2)

\* Lines 281-312, for a truthy demographics: only an object has the properties read.
ValidateDemographics(demographics, currentYear) ==
  IF ~IsObject(demographics) THEN demographics
  ELSE LET demo == NullPlaceholders(demographics,
                     <<"name", "gender", "address", "zipCode", "phone">>) IN
       IF SuspiciousAge(Get(demo, "age"))
         THEN Put(demo, "age", RecomputedAge(Get(demo, "birthDate"), currentYear))
         ELSE demo

\* Line 315
arrayFields == <<"conditions", "medications", "allergies", "procedures">>

\* Lines 326-331
IsPlaceholderItem(item) ==
  item = JStr(S_string) \/ item = JStr(S_objectObject) \/ item = JStr(S_NA) \/ item = JNull

\* Lines 319-332, for one field
ValidateArrayField(value) ==
  IF ~Truthy(value) THEN JArr(<<>>)
  ELSE IF ~IsArray(value) THEN JArr(<<>>)
  ELSE JArr(SelectSeq(value.items, LAMBDA item : ~IsPlaceholderItem(item)))

RECURSIVE ValidateArrayFields(_, _)
ValidateArrayFields(obj, fields) ==
  IF fields = <<>> THEN obj
  ELSE ValidateArrayFields(Put(obj, Head(fields), ValidateArrayField(Get(obj, Head(fields)))),
                           Tail(fields))

vitalSignFields ==
  <<"height", "weight", "bloodPressure", "temperature", "pulse", "respiratoryRate">>

\* Lines 336-354
ValidateVitalSigns(vitalSigns) ==
  IF ~Truthy(vitalSigns) \/ vitalSigns.t \notin {"object", "array"}
    THEN JObj([height |-> JNull, weight |-> JNull, bloodPressure |-> JNull,
               temperature |-> JNull, pulse |-> JNull, respiratoryRate |-> JNull])
  ELSE IF IsObject(vitalSigns) THEN NullPlaceholders(vitalSigns, vitalSignFields)
  ELSE vitalSigns

\* Lines 279-355.  A falsy finalData skips the validation.  The module is strict
\* code, so setting a property on a truthy primitive throws a TypeError; the
\* properties set on an array are not part of its JSON.
PostValidate(finalData, currentYear) ==
  IF ~Truthy(finalData) THEN Ok(finalData)
  ELSE IF finalData.t \in {"number", "boolean", "string"}
    THEN Throws(<<"Cannot create property 'conditions'">>)
  ELSE IF IsArray(finalData) THEN Ok(finalData)
  ELSE LET withDemographics ==
             IF Truthy(Get(finalData, "demographics"))
               THEN Put(finalData, "demographics",
                        ValidateDemographics(Get(finalData, "demographics"), currentYear))
               ELSE finalData
           withArrays == ValidateArrayFields(withDemographics, arrayFields) IN
       Ok(Put(withArrays, "vitalSigns", ValidateVitalSigns(Get(withArrays, "vitalSigns"))))

\* A markdown code fence (three backquotes), with and without the json tag.
FenceJson == Lit(<<"[fence]", "json">>)
Fence == Lit(<<"[fence]">>)

\* Line 266: the opening fence with its json tag and an optional newline is
\* removed from the start, an optional newline and the closing fence from the end.
StripOpeningFence(text) ==
  IF text # <<>> /\ Head(text) = FenceJson
    THEN IF Len(text) >= 2 /\ text[2] = Newline THEN SubSeq(text, 3, Len(text)) ELSE Tail(text)
    ELSE text
StripClosingFence(text) ==
  IF text # <<>> /\ text[Len(text)] = Fence
    THEN IF Len(text) >= 2 /\ text[Len(text) - 1] = Newline
           THEN SubSeq(text, 1, Len(text) - 2)
           ELSE SubSeq(text, 1, Len(text) - 1)
    ELSE text
StripFences(text) == StripClosingFence(StripOpeningFence(text))

\* v?.key and v?.[0]
OptGet(v, key) == IF IsNullish(v) THEN Undefined ELSE Get(v, key)
OptFirst(v) ==
  IF IsArray(v) /\ Len(v.items) >= 1 THEN v.items[1] ELSE Undefined

\* Lines 259-271
GeneratedText(geminiData) ==
  LET parsedJsonString ==
        OptGet(OptFirst(OptGet(OptGet(OptFirst(OptGet(geminiData, "candidates")),
                                      "content"), "parts")), "text") IN
  IF ~Truthy(parsedJsonString)
    THEN Throws(<<"Failed to extract content: Could not find generated text in Gemini response.">>)
  ELSE IF parsedJsonString.t # "string"
    THEN Throws(<<"Failed to extract content: parsedJsonString.replace is not a function">>)
  ELSE Ok(StripFences(parsedJsonString.s))

\* Lines 372-385
ParseFailure(details, ccdData) ==
  JsonResponse(500, JObj([error |-> JStr(<<"Error processing CCD with Gemini">>),
                          details |-> JStr(<<"Gemini API error: ">> \o details),
                          xmlSnippet |-> JStr(ccdData)]))

\* Lines 247-386: the Gemini response, the generated text, JSON.parse, the
\* post-validation and the 200 response.
ParseAfterFetch(reply, r, e) ==
  LET ccdData == ReadCcdData(r).v IN
  IF ~reply.arrives THEN ParseFailure(<<"fetch failed">>, ccdData)
  ELSE IF ~reply.ok THEN ParseFailure(<<"Gemini API failed">>, ccdData)
  ELSE LET geminiData == JsonParse(reply.text) IN
    IF ~geminiData.ok THEN ParseFailure(geminiData.msg, ccdData)
    ELSE LET text == GeneratedText(geminiData.v) IN
      IF ~text.ok THEN ParseFailure(text.msg, ccdData)
      ELSE LET parsed == JsonParse(text.v) IN
        IF ~parsed.ok THEN ParseFailure(<<"Gemini returned invalid JSON">>, ccdData)
        ELSE LET finalData == PostValidate(parsed.v, e.year) IN
          IF ~finalData.ok THEN ParseFailure(<<"Gemini returned invalid JSON">>, ccdData)
          ELSE JsonResponse(200, finalData.v)

ParseHandleRequest ==
  /\ fn = "parse-ccd"
  /\ pc = "received"
  /\ Finish(ParseBeforeFetch(req, env))
  /\ UNCHANGED <<fn, env, req, upstream, clientVars, heapVars>>

ParseHandleReply ==
  /\ fn = "parse-ccd"
  /\ pc = "awaiting"
  /\ pc' = "responded"
  /\ resp' = ParseAfterFetch(upstream, req, env)
  /\ UNCHANGED <<fn, env, req, upstream, outbound, clientVars, heapVars>>

-----------------------------------------------------------------------------
(* Text conversion.  In the search and rank stages a string is a tuple of words. *)

\* String(v), as template literals and Array.prototype.join convert a value;
\* join renders null and undefined elements as the empty string.
RECURSIVE ToText(_), JoinItems(_, _)
ToText(v) ==
  CASE v.t = "string" -> v.s
    [] v.t = "number" -> <<ToString(v.n)>>
    [] v.t = "boolean" -> IF v.b THEN <<"true">> ELSE <<"false">>
    [] v.t = "null" -> <<"null">>
    [] v.t = "undefined" -> <<"undefined">>
    [] v.t = "array" -> JoinItems(v.items, <<",">>)
    [] OTHER -> <<"[object Object]">>
JoinItems(items, sep) ==
  IF items = <<>> THEN <<>>
  ELSE LET first == IF IsNullish(Head(items)) THEN <<>> ELSE ToText(Head(items)) IN
       IF Len(items) = 1 THEN first
       ELSE first \o sep \o JoinItems(Tail(items), sep)

\* texts.join(sep) for an array of texts
RECURSIVE JoinTexts(_, _)
JoinTexts(texts, sep) ==
  IF texts = <<>> THEN <<>>
  ELSE IF Len(texts) = 1 THEN Head(texts)
  ELSE Head(texts) \o sep \o JoinTexts(Tail(texts), sep)

-----------------------------------------------------------------------------
(* search-trials: the handler *)

CTGOV_API_BASE_URL == "https://clinicaltrials.gov/api/v2/studies"
DEFAULT_PAGE_SIZE == 50
RequestedFields ==
  <<"NCTId,BriefTitle,Condition,Keyword,OverallStatus,Phase,StudyType,EligibilityCriteria,BriefSummary,DetailedDescription,CentralContactName,CentralContactPhone,LocationFacility,LocationCity,LocationState,LocationZip,LocationCountry,LocationGeoPoint">>

SearchFailure(msg) ==
  JsonResponse(500, ErrorBody(<<"Trial search failed: ">> \o msg))

\* Mutant: no default, the status clause is built from the given value only.
StatusClause_NoDefault(filters) ==
  LET recruitingStatus == Get(filters, "recruitingStatus") IN
  IF Truthy(recruitingStatus) /\ recruitingStatus # JStr(<<"ANY">>)
    THEN Ok(<<<<"STATUS ">> \o ToText(recruitingStatus)>>)
    ELSE Ok(<<>>)

\* Lines 62-66: the status clause, or none
StatusClause(filters) ==
  LET recruitingStatus == Get(filters, "recruitingStatus")
      status == IF recruitingStatus = JStr(<<"ANY">>) THEN JNull
                ELSE IF Truthy(recruitingStatus) THEN recruitingStatus
                ELSE JStr(<<"RECRUITING">>) IN
  IF Truthy(status) THEN Ok(<<<<"STATUS ">> \o ToText(status)>>) ELSE Ok(<<>>)

\* Lines 68-73: the condition clause, or none.  conditions?.map(...) throws when
\* extractedFacts is nullish, when conditions is neither nullish nor an array,
\* and when an element is nullish.
ConditionClause(extractedFacts, filters) ==
  LET keyword == Get(filters, "conditionKeyword") IN
  IF Truthy(keyword) THEN Ok(<<<<"AREA[Condition] ">> \o ToText(keyword)>>)
  ELSE IF IsNullish(extractedFacts) THEN Throws(<<"TypeError: cannot read conditions">>)
  ELSE LET conditions == Get(extractedFacts, "conditions") IN
    IF IsNullish(conditions) THEN Ok(<<>>)
    ELSE IF ~IsArray(conditions) THEN Throws(<<"TypeError: map is not a function">>)
    ELSE IF \E i \in 1..Len(conditions.items) : IsNullish(conditions.items[i])
      THEN Throws(<<"TypeError: cannot read term">>)
    ELSE LET terms == [i \in 1..Len(conditions.items) |-> Get(conditions.items[i], "term")]
             conditionSearchTerm == JoinItems(terms, <<" OR ">>) IN
         IF conditionSearchTerm # <<>>
           THEN Ok(<<<<"AREA[Condition] ">> \o conditionSearchTerm>>)
           ELSE Ok(<<>>)

\* Mutant: the two age clauses are emitted when an age is given.
AgeClause_Emitted(extractedFacts) ==
  LET age == Get(extractedFacts, "age") IN
  IF age # Undefined
    THEN << <<"AREA[MinimumAge] RANGE[, ">> \o ToText(age) \o <<" years]">>,
            <<"AREA[MaximumAge] RANGE[">> \o ToText(age) \o <<" years, ]">> >>
    ELSE <<>>

\* Lines 75-81: the block that tests extractedFacts.age holds only comments
AgeClause(extractedFacts) == <<>>

\* Mutant: the gender 'Other' is mapped to All like every unlisted value.
GenderClause_OtherAsAll(extractedFacts) ==
  LET gender == Get(extractedFacts, "gender") IN
  IF Truthy(gender)
    THEN LET apiGender == IF gender = JStr(<<"Male">>) \/ gender = JStr(<<"Female">>)
                            THEN gender ELSE JStr(<<"All">>) IN
         <<<<"AREA[Gender] ">> \o ToText(apiGender)>>
    ELSE <<>>

\* Lines 83-87
GenderClause(extractedFacts) ==
  LET gender == Get(extractedFacts, "gender") IN
  IF Truthy(gender) /\ gender # JStr(<<"Other">>)
    THEN LET apiGender == IF gender = JStr(<<"Male">>) \/ gender = JStr(<<"Female">>)
                            THEN gender ELSE JStr(<<"All">>) IN
         <<<<"AREA[Gender] ">> \o ToText(apiGender)>>
    ELSE <<>>

\* Mutant: the clause is emitted for every travel radius, with or without a zipCode.
LocationClause_RadiusOnly(extractedFacts, filters) ==
  IF Truthy(Get(filters, "travelRadiusMiles"))
    THEN << <<"AREA[LocationGeoPoint] NEAR[">> \o ToText(Get(extractedFacts, "zipCode"))
            \o <<"] ">> \o ToText(Get(filters, "travelRadiusMiles")) \o <<" miles">> >>
    ELSE <<>>

\* Lines 89-92
LocationClause(extractedFacts, filters) ==
  IF Truthy(Get(filters, "travelRadiusMiles")) /\ Truthy(Get(extractedFacts, "zipCode"))
    THEN << <<"AREA[LocationGeoPoint] NEAR[">> \o ToText(Get(extractedFacts, "zipCode"))
            \o <<"] ">> \o ToText(Get(filters, "travelRadiusMiles")) \o <<" miles">> >>
    ELSE <<>>

\* Lines 94-97: filters.phase.length > 0, then filters.phase.join
PhaseClause(filters) ==
  LET phase == Get(filters, "phase") IN
  IF ~Truthy(phase) THEN Ok(<<>>)
  ELSE IF phase.t = "string" THEN Throws(<<"TypeError: join is not a function">>)
  ELSE IF ~IsArray(phase) \/ Len(phase.items) = 0 THEN Ok(<<>>)
  ELSE Ok(<<<<"AREA[Phase] ">> \o JoinItems(phase.items, <<" OR ">>)>>)

\* Lines 55-105: the query parameters, in the order they are set
QueryParams(filterQueryParts) ==
  << <<"pageSize", <<ToString(DEFAULT_PAGE_SIZE)>> >>, <<"format", <<"json">> >> >>
  \o (IF Len(filterQueryParts) > 0
        THEN << <<"filter.advanced", JoinTexts(filterQueryParts, <<" AND ">>)>> >>
        ELSE <<>>)
  \o << <<"fields", RequestedFields>> >>

\* Lines 42-116: preflight, the body, the destructured payload, the filter
\* clauses and the GET request.  Reading a property of a nullish filters or
\* extractedFacts throws.
SearchBeforeFetch(r, e) ==
  IF r.method = "OPTIONS" THEN Respond(PreflightResponse)
  ELSE IF ~r.body.present
    THEN Respond(JsonResponse(400, ErrorBody(<<"Missing request body">>)))
  ELSE LET payload == ReqJson(r) IN
    IF ~payload.ok THEN Respond(SearchFailure(payload.msg))
    ELSE IF IsNullish(payload.v) THEN Respond(SearchFailure(<<"TypeError: cannot destructure">>))
    ELSE LET extractedFacts == Get(payload.v, "extractedFacts")
             filters == Get(payload.v, "filters") IN
      IF IsNullish(filters) THEN Respond(SearchFailure(<<"TypeError: cannot read recruitingStatus">>))
      ELSE LET statusPart == StatusClause(filters)
               conditionPart == ConditionClause(extractedFacts, filters)
               phasePart == PhaseClause(filters) IN
        IF ~conditionPart.ok THEN Respond(SearchFailure(conditionPart.msg))
        ELSE IF IsNullish(extractedFacts) THEN Respond(SearchFailure(<<"TypeError: cannot read age">>))
        ELSE IF ~phasePart.ok THEN Respond(SearchFailure(phasePart.msg))
        ELSE Fetch("registry", "GET",
                   [url |-> CTGOV_API_BASE_URL,
                    query |-> QueryParams(statusPart.v \o conditionPart.v
                                          \o AgeClause(extractedFacts)
                                          \o GenderClause(extractedFacts)
                                          \o LocationClause(extractedFacts, filters)
                                          \o phasePart.v)])

\* Lines 118-140
SearchAfterFetch(reply) ==
  IF ~reply.arrives THEN SearchFailure(<<"fetch failed">>)
  ELSE IF ~reply.ok
    THEN SearchFailure(<<"ClinicalTrials.gov API request failed with status ",
                         ToString(reply.status)>>)
  ELSE LET searchResults == JsonParse(reply.text) IN
    IF ~searchResults.ok THEN SearchFailure(searchResults.msg)
    ELSE IF IsNullish(searchResults.v) THEN SearchFailure(<<"TypeError: cannot read studies">>)
    ELSE LET studies == Get(searchResults.v, "studies") IN
      JsonResponse(200, IF Truthy(studies) THEN studies ELSE JArr(<<>>))

SearchHandleRequest ==
  /\ fn = "search-trials"
  /\ pc = "received"
  /\ Finish(SearchBeforeFetch(req, env))
  /\ UNCHANGED <<fn, env, req, upstream, clientVars, heapVars>>

\* Mutant: a refused request is issued again, up to three times.
SearchHandleReply_Retrying ==
  /\ fn = "search-trials"
  /\ pc = "awaiting"
  /\ IF ~upstream.ok /\ Len(outbound) < 3
       THEN /\ outbound' = Append(outbound, outbound[1])
            /\ UNCHANGED <<pc, resp>>
       ELSE /\ pc' = "responded"
            /\ resp' = SearchAfterFetch(upstream)
            /\ UNCHANGED outbound
  /\ UNCHANGED <<fn, env, req, upstream, clientVars, heapVars>>

SearchHandleReply ==
  /\ fn = "search-trials"
  /\ pc = "awaiting"
  /\ pc' = "responded"
  /\ resp' = SearchAfterFetch(upstream)
  /\ UNCHANGED <<fn, env, req, upstream, outbound, clientVars, heapVars>>

-----------------------------------------------------------------------------
(* rank-summarize-trials: module load and the handler *)

SummaryLength == 500

\* x?.join(', ') || 'N/A': a nullish x gives 'N/A', an array is joined, and
\* anything else has no join method.
JoinOrNA(x) ==
  IF IsNullish(x) THEN Ok(JStr(<<"N/A">>))
  ELSE IF ~IsArray(x) THEN Throws(<<"TypeError: join is not a function">>)
  ELSE LET joined == JoinItems(x.items, <<", ">>) IN
       Ok(JStr(IF joined # <<>> THEN joined ELSE <<"N/A">>))

\* eligibilityCriteria?.substring(0, 500) + '...'
CriteriaSummary(criteria) ==
  IF IsNullish(criteria) THEN Ok(JStr(<<"undefined", "...">>))
  ELSE IF criteria.t # "string" THEN Throws(<<"TypeError: substring is not a function">>)
  ELSE Ok(JStr(Substring(criteria.s, 0, SummaryLength) \o <<"...">>))

\* Lines 82-95.  The identification, status, design and eligibility modules are
\* read without a guard; conditionsModule is read with ?. .
simplifyTrialForPrompt(trial) ==
  IF IsNullish(trial) THEN Throws(<<"TypeError: cannot read protocolSection">>)
  ELSE LET ps == Get(trial, "protocolSection") IN
    IF IsNullish(ps) THEN Throws(<<"TypeError: cannot read identificationModule">>)
    ELSE LET identificationModule == Get(ps, "identificationModule")
             statusModule == Get(ps, "statusModule")
             designModule == Get(ps, "designModule")
             eligibilityModule == Get(ps, "eligibilityModule") IN
      IF IsNullish(identificationModule) THEN Throws(<<"TypeError: cannot read nctId">>)
      ELSE IF IsNullish(statusModule) THEN Throws(<<"TypeError: cannot read overallStatus">>)
      ELSE IF IsNullish(designModule) THEN Throws(<<"TypeError: cannot read phase">>)
      ELSE LET phase == JoinOrNA(OptGet(Get(designModule, "phase"), "phases"))
               conditions == JoinOrNA(OptGet(Get(ps, "conditionsModule"), "conditions")) IN
        IF ~phase.ok THEN phase
        ELSE IF ~conditions.ok THEN conditions
        ELSE IF IsNullish(eligibilityModule) THEN Throws(<<"TypeError: cannot read eligibilityCriteria">>)
        ELSE LET summary == CriteriaSummary(Get(eligibilityModule, "eligibilityCriteria"))
                 ageRange == JoinOrNA(Get(eligibilityModule, "stdAges")) IN
          IF ~summary.ok THEN summary
          ELSE IF ~ageRange.ok THEN ageRange
          ELSE Ok(JObj([nctId |-> Get(identificationModule, "nctId"),
                        title |-> Get(identificationModule, "briefTitle"),
                        status |-> Get(statusModule, "overallStatus"),
                        phase |-> phase.v,
                        conditions |-> conditions.v,
                        eligibilityCriteriaSummary |-> summary.v,
                        genderEligible |-> Get(eligibilityModule, "gender"),
                        ageRange |-> ageRange.v]))

\* Mutant: only a falsy trials short-circuits.
IsEmptyTrialList_FalsyOnly(trials) == ~Truthy(trials)

\* Line 112: !trials || trials.length === 0
IsEmptyTrialList(trials) == ~Truthy(trials) \/ (IsArray(trials) /\ Len(trials.items) = 0)

RankFailure(msg) ==
  JsonResponse(500, ErrorBody(<<"Ranking/summarization failed: ">> \o msg))

\* Lines 98-162: preflight, the body, the destructured payload, trials.length
\* (line 110, which throws on a nullish trials), the empty short-circuit, the
\* simplified trials and the POST to the model.
RankBeforeFetch(r, e) ==
  IF r.method = "OPTIONS" THEN Respond(PreflightResponse)
  ELSE IF ~r.body.present
    THEN Respond(JsonResponse(400, ErrorBody(<<"Missing request body">>)))
  ELSE LET payload == ReqJson(r) IN
    IF ~payload.ok THEN Respond(RankFailure(payload.msg))
    ELSE IF IsNullish(payload.v) THEN Respond(RankFailure(<<"TypeError: cannot destructure">>))
    ELSE LET extractedFacts == Get(payload.v, "extractedFacts")
             trials == Get(payload.v, "trials") IN
      IF IsNullish(trials) THEN Respond(RankFailure(<<"TypeError: cannot read length">>))
      ELSE IF IsEmptyTrialList(trials)
        THEN Respond(JsonResponse(200, JArr(<<>>)))
      ELSE IF ~IsArray(trials) THEN Respond(RankFailure(<<"TypeError: map is not a function">>))
      ELSE LET simplified == [i \in 1..Len(trials.items) |-> simplifyTrialForPrompt(trials.items[i])] IN
        IF \E i \in 1..Len(simplified) : ~simplified[i].ok
          THEN Respond(RankFailure(
                 simplified[CHOOSE i \in 1..Len(simplified) :
                              /\ ~simplified[i].ok
                              /\ \A j \in 1..(i - 1) : simplified[j].ok].msg))
          ELSE Fetch("llm", "POST",
                     [extractedFacts |-> extractedFacts,
                      simplifiedTrials |-> JArr([i \in 1..Len(simplified) |-> simplified[i].v])])

\* Lines 164-202
RankAfterFetch(reply) ==
  IF ~reply.arrives THEN RankFailure(<<"fetch failed">>)
  ELSE IF ~reply.ok
    THEN RankFailure(<<"Gemini API request failed with status ", ToString(reply.status), ": ">>
                     \o reply.text)
  ELSE LET responseData == JsonParse(reply.text) IN
    IF ~responseData.ok THEN RankFailure(responseData.msg)
    ELSE LET rankedJsonText ==
               FirstPartText(responseData.v,
                 <<"Gemini returned an empty or invalid response structure for ranking.">>) IN
      IF ~rankedJsonText.ok THEN RankFailure(rankedJsonText.msg)
      ELSE LET rankedTrialsData == JsonParseValue(rankedJsonText.v) IN
        IF ~rankedTrialsData.ok THEN RankFailure(rankedTrialsData.msg)
        ELSE JsonResponse(200, rankedTrialsData.v)

\* Lines 14-19: the module throws while loading when GOOGLE_API_KEY is not set,
\* so no handler is ever registered.
RankModuleLoad ==
  /\ fn = "rank-summarize-trials"
  /\ pc = "boot"
  /\ pc' = IF env.apiKey THEN "received" ELSE "crashed"
  /\ UNCHANGED <<fn, env, req, upstream, outbound, resp, clientVars, heapVars>>

RankHandleRequest ==
  /\ fn = "rank-summarize-trials"
  /\ pc = "received"
  /\ Finish(RankBeforeFetch(req, env))
  /\ UNCHANGED <<fn, env, req, upstream, clientVars, heapVars>>

RankHandleReply ==
  /\ fn = "rank-summarize-trials"
  /\ pc = "awaiting"
  /\ pc' = "responded"
  /\ resp' = RankAfterFetch(upstream)
  /\ UNCHANGED <<fn, env, req, upstream, outbound, clientVars, heapVars>>

-----------------------------------------------------------------------------
(* Inputs of parse-ccd: the JSON the LLM generates for one document *)

MaxItems == 2
Years == {2024, 2025}

\* The object whose keys are the keys of f not mapped to undefined.
ObjOf(f) == JObj([k \in {key \in DOMAIN f : f[key] # Undefined} |-> f[k]])

D_1950 == <<"1","9","5","0","-","0","1","-","0","1">>
D_1900 == <<"1","9","0","0","-","0","6","-","0","1">>
D_1901 == <<"1","9","0","1","-","0","6","-","0","1">>
D_2024 == <<"2","0","2","4","-","0","3","-","0","9">>
D_2025 == <<"2","0","2","5","-","0","3","-","0","9">>
D_short == <<"1","9","5">>
D_words == <<"J","a","n"," ","1","9","5","0">>
S_Jane == <<"J","a","n","e">>
S_Asthma == <<"A","s","t","h","m","a">>

LlmAges ==
  {JNum(n) : n \in {0 - 1, 0, 1, 2, 45, 120, 121, 200}} \cup {Undefined, JNull, JStr(<<"4","5">>)}
LlmBirthDates ==
  {JStr(d) : d \in {D_1950, D_1900, D_1901, D_2024, D_2025, D_short, D_words,
                    S_YYYYMMDD, S_string, <<>>}}
  \cup {Undefined, JNull, JNum(1950)}

\* demographics with an age and a birth date
AgeDocs ==
  {ObjOf([demographics |-> ObjOf([age |-> a, birthDate |-> b])]) :
     a \in LlmAges, b \in LlmBirthDates}

LlmScalars == {JStr(S_string), JStr(S_NA), JStr(S_YYYYMMDD), JNull, JStr(S_Jane)}
DemographicFields == {"name", "gender", "birthDate", "address", "zipCode", "phone"}

\* demographics with one field, and demographics that is not an object
DemographicDocs ==
  {JObj([demographics |-> JObj([k \in {f} |-> x])]) : f \in DemographicFields, x \in LlmScalars}
  \cup {JObj([demographics |-> x]) : x \in {JStr(S_string), JArr(<<>>), JNum(5), JNull}}

LlmItems ==
  {JStr(S_string), JStr(S_NA), JStr(S_objectObject), JNull, JStr(S_Asthma),
   JObj([name |-> JStr(S_string)])}
ItemLists == UNION {[1..n -> LlmItems] : n \in 0..MaxItems}

\* one list field that holds an array, or something else
ListDocs ==
  {JObj([k \in {f} |-> JArr(items)]) : f \in {arrayFields[i] : i \in DOMAIN arrayFields},
                                       items \in ItemLists}
  \cup {JObj([k \in {f} |-> x]) : f \in {arrayFields[i] : i \in DOMAIN arrayFields},
                                  x \in {JNull, JStr(S_string), JStr(<<>>), JNum(0), JNum(5),
                                         JObj(EmptyFields)}}

VitalSignsValues ==
  {JObj([k \in {f} |-> x]) : f \in {vitalSignFields[i] : i \in DOMAIN vitalSignFields},
                             x \in {JStr(S_string), JStr(S_NA), JNull, JStr(<<"7","2">>)}}
  \cup {JNull, JStr(S_string), JNum(0), JNum(5), JArr(<<>>), JArr(<<JStr(S_string)>>),
        JObj(EmptyFields)}
VitalSignsDocs == {JObj([vitalSigns |-> x]) : x \in VitalSignsValues}

\* a complete output, every section filled
FullDoc ==
  JObj([demographics |-> JObj([name |-> JStr(S_Jane), age |-> JNum(45), birthDate |-> JStr(D_1950)]),
        conditions |-> JArr(<<JStr(S_Asthma)>>), medications |-> JArr(<<>>),
        allergies |-> JArr(<<JStr(S_NA)>>), procedures |-> JArr(<<JNull>>),
        vitalSigns |-> JObj([pulse |-> JStr(<<"7","2">>)])])

\* outputs that are JSON but not an object
NonObjectDocs ==
  {JNull, JNum(0), JNum(5), JBool(FALSE), JBool(TRUE), JStr(<<>>), JStr(S_Jane),
   JArr(<<>>), JArr(<<JStr(S_string)>>)}

LlmDocs ==
  AgeDocs \cup DemographicDocs \cup ListDocs \cup VitalSignsDocs \cup {FullDoc, JObj(EmptyFields)}
  \cup NonObjectDocs

\* The generated text around the JSON: bare, fenced, and with prose in front.
Bare(doc) == <<Ser(doc)>>
LlmTexts ==
  {Bare(doc) : doc \in LlmDocs}
  \cup {<<FenceJson, Newline, Ser(FullDoc), Newline, Fence>>,
        <<FenceJson, Ser(FullDoc), Fence>>,
        <<FenceJson, Newline, Ser(JNull)>>,
        <<Space, Ser(FullDoc), Newline>>,
        <<Fence, Newline, Ser(FullDoc), Newline, Fence>>,
        <<Lit(<<"Here is the JSON:">>), Ser(FullDoc)>>,
        <<>>}

\* Replies of the Gemini API that carry no generated text
LlmFailureBodies ==
  {JObj(EmptyFields), JNull, JObj([candidates |-> JArr(<<>>)]),
   JObj([candidates |-> JArr(<<JObj(EmptyFields)>>)]),
   JObj([candidates |-> JArr(<<JObj([content |-> JObj([parts |-> JArr(<<>>)])])>>)]),
   JObj([error |-> JObj([code |-> JNum(429)])])}
ParseReplies ==
  {HttpReply(200, <<Ser(GeminiData(text))>>) : text \in LlmTexts}
  \cup {HttpReply(200, <<Ser(body)>>) : body \in LlmFailureBodies}
  \cup {HttpReply(200, <<Lit(<<"<html>">>)>>), HttpReply(429, <<Lit(<<"quota">>)>>),
        HttpReply(500, <<>>), NetworkError}

XmlContentType == <<"application/", "xml">>
JsonContentTypeOfRequest == <<"application/", "json">>

InitParse ==
  /\ fn = "parse-ccd"
  /\ env \in [apiKey : {TRUE}, year : Years]
  /\ req = [method |-> "POST", contentType |-> XmlContentType, body |-> Body(XmlDoc)]
  /\ upstream \in ParseReplies
  /\ pc = "received"
  /\ outbound = <<>>
  /\ resp = NoResponse
  /\ ClientAtRest
  /\ HeapAtRest

NextParse == ParseHandleRequest \/ ParseHandleReply

SpecParse == InitParse /\ [][NextParse]_vars

-----------------------------------------------------------------------------
(* Inputs of search-trials *)

RecruitingStatuses ==
  {Undefined, JNull, JStr(<<>>), JNum(0), JBool(FALSE),
   JStr(<<"ANY">>), JStr(<<"any">>), JStr(<<"RECRUITING">>), JStr(<<"COMPLETED">>), JNum(5)}
ConditionKeywords == {Undefined, JStr(<<>>), JStr(<<"diabetes">>)}
TravelRadii == {Undefined, JNum(0), JNum(50)}
Phases ==
  {Undefined, JArr(<<>>), JArr(<<JStr(<<"PHASE_1">>)>>),
   JArr(<<JStr(<<"PHASE_2">>), JStr(<<"PHASE_3">>)>>), JStr(<<"PHASE_1">>)}
SearchFilters ==
  {ObjOf([recruitingStatus |-> s, conditionKeyword |-> k, travelRadiusMiles |-> r, phase |-> p]) :
     s \in RecruitingStatuses, k \in ConditionKeywords, r \in TravelRadii, p \in Phases}

Term(word) == JObj([term |-> JStr(<<word>>)])
EmptyTerm == JObj([term |-> JStr(<<>>)])
FactConditions ==
  {Undefined, JArr(<<>>), JArr(<<Term("asthma")>>), JArr(<<Term("asthma"), Term("copd")>>),
   JArr(<<EmptyTerm>>), JArr(<<EmptyTerm, EmptyTerm>>), JArr(<<JNull>>), JStr(<<"asthma">>)}
FactGenders ==
  {Undefined, JNull, JStr(<<>>), JStr(<<"Male">>), JStr(<<"Female">>), JStr(<<"Other">>),
   JStr(<<"Unknown">>)}
FactZipCodes == {Undefined, JStr(<<"12345">>)}
SearchFacts ==
  {ObjOf([age |-> JNum(45), conditions |-> c, gender |-> g, zipCode |-> z]) :
     c \in FactConditions, g \in FactGenders, z \in FactZipCodes}

SomeFacts ==
  JObj([age |-> JNum(45), gender |-> JStr(<<"Female">>), zipCode |-> JStr(<<"12345">>),
        conditions |-> JArr(<<Term("asthma")>>)])
SomeFilters == JObj([recruitingStatus |-> JStr(<<"RECRUITING">>)])

\* facts with its age replaced by age, or without an age when age is undefined
SetAge(facts, age) ==
  ObjOf([k \in DOMAIN facts.fields \cup {"age"} |-> IF k = "age" THEN age ELSE facts.fields[k]])
FactAges == {Undefined, JNull, JNum(0), JNum(45), JNum(130), JStr(<<"45">>)}

\* Payloads that lack one of the two members, or are no object
OddSearchPayloads ==
  {JObj([extractedFacts |-> SomeFacts]), JObj([filters |-> SomeFilters]),
   JObj([extractedFacts |-> JNull, filters |-> SomeFilters]),
   JObj([extractedFacts |-> SomeFacts, filters |-> JNull]),
   JObj([extractedFacts |-> SomeFacts,
         filters |-> JObj([conditionKeyword |-> JStr(<<"diabetes">>)])]),
   JObj(EmptyFields), JNull, JNum(5)}
SearchPayloads ==
  {JObj([extractedFacts |-> f, filters |-> g]) : f \in SearchFacts, g \in SearchFilters}

\* A study as the registry returns it for the requested fields
Study(id) ==
  JObj([protocolSection |->
    JObj([identificationModule |-> JObj([nctId |-> JStr(<<id>>), briefTitle |-> JStr(<<"Trial ", id>>)]),
          statusModule |-> JObj([overallStatus |-> JStr(<<"RECRUITING">>)]),
          designModule |-> JObj([studyType |-> JStr(<<"INTERVENTIONAL">>),
                                 phases |-> JArr(<<JStr(<<"PHASE2">>)>>)]),
          conditionsModule |-> JObj([conditions |-> JArr(<<JStr(<<"Asthma">>)>>)]),
          eligibilityModule |-> JObj([eligibilityCriteria |-> JStr(<<"A","d","u","l","t","s">>),
                                      gender |-> JStr(<<"ALL">>),
                                      stdAges |-> JArr(<<JStr(<<"ADULT">>), JStr(<<"OLDER_ADULT">>)>>)])])])

RegistryReplies ==
  {HttpReply(200, <<Ser(JObj([studies |-> JArr(<<Study("NCT01"), Study("NCT02")>>)]))>>),
   HttpReply(200, <<Ser(JObj([studies |-> JArr(<<>>)]))>>),
   HttpReply(200, <<Ser(JObj(EmptyFields))>>),
   HttpReply(200, <<Ser(JNull)>>),
   HttpReply(200, <<Lit(<<"<html>">>)>>),
   HttpReply(400, <<Lit(<<"bad filter">>)>>),
   HttpReply(503, <<>>),
   NetworkError}
GoodRegistryReply ==
  HttpReply(200, <<Ser(JObj([studies |-> JArr(<<Study("NCT01")>>)]))>>)

PostJson(value) ==
  [method |-> "POST", contentType |-> JsonContentTypeOfRequest, body |-> Body(<<Ser(value)>>)]

InitSearch ==
  /\ fn = "search-trials"
  /\ env \in [apiKey : BOOLEAN, year : {2025}]
  /\ \/ /\ req \in {PostJson(p) : p \in SearchPayloads}
        /\ upstream = GoodRegistryReply
     \/ /\ req \in {PostJson(JObj([extractedFacts |-> SetAge(SomeFacts, age), filters |-> SomeFilters])) :
                     age \in FactAges}
        /\ upstream = GoodRegistryReply
     \/ /\ req \in {PostJson(p) : p \in OddSearchPayloads \cup {JObj([extractedFacts |-> SomeFacts, filters |-> SomeFilters])}}
        /\ upstream \in RegistryReplies
  /\ pc = "received"
  /\ outbound = <<>>
  /\ resp = NoResponse
  /\ ClientAtRest
  /\ HeapAtRest

NextSearch == SearchHandleRequest \/ SearchHandleReply

SpecSearch == InitSearch /\ [][NextSearch]_vars

-----------------------------------------------------------------------------
(* Inputs of rank-summarize-trials *)

\* Studies that miss a module that simplifyTrialForPrompt reads
StudyWithout(module) ==
  JObj([protocolSection |->
    JObj([k \in DOMAIN Study("NCT09").fields.protocolSection.fields \ {module} |->
            Study("NCT09").fields.protocolSection.fields[k]])])

TrialLists ==
  {JArr(<<>>), JArr(<<Study("NCT01")>>), JArr(<<Study("NCT01"), Study("NCT02")>>),
   JArr(<<JObj(EmptyFields)>>), JArr(<<Study("NCT01"), JNull>>),
   JArr(<<StudyWithout("designModule")>>), JArr(<<StudyWithout("conditionsModule")>>),
   JArr(<<StudyWithout("eligibilityModule")>>)}
RankTrials ==
  TrialLists \cup {Undefined, JNull, JStr(<<>>), JStr(<<"NCT01">>), JNum(0), JObj(EmptyFields)}

RankPayloads ==
  {ObjOf([extractedFacts |-> f, trials |-> t]) : f \in {Undefined, SomeFacts}, t \in RankTrials}
  \cup {JNull, JNum(5)}

Ranked(id, score) ==
  JObj([nctId |-> JStr(<<id>>), matchPercentage |-> JNum(score),
        summaryNote |-> JStr(<<"Matches the condition.">>)])

RankedLists ==
  {JArr(<<>>), JArr(<<Ranked("NCT01", 87)>>), JArr(<<Ranked("NCT01", 87), Ranked("NCT02", 0)>>),
   JArr(<<Ranked("NCT01", 150)>>), JArr(<<Ranked("NCT01", 0 - 5)>>),
   JObj([ranked |-> JArr(<<>>)]), JNull}
RankReplies ==
  {HttpReply(200, <<Ser(GeminiData(<<Ser(ranked)>>))>>) : ranked \in RankedLists}
  \cup {HttpReply(200, <<Ser(GeminiData(<<Lit(<<"Sorry">>)>>))>>)}
  \cup {HttpReply(200, <<Ser(body)>>) : body \in LlmFailureBodies}
  \cup {HttpReply(200, <<Lit(<<"<html>">>)>>), HttpReply(429, <<Lit(<<"quota">>)>>),
        HttpReply(500, <<>>), NetworkError}

InitRank ==
  /\ fn = "rank-summarize-trials"
  /\ env \in [apiKey : BOOLEAN, year : {2025}]
  /\ req \in {PostJson(p) : p \in RankPayloads}
  /\ upstream \in RankReplies
  /\ pc = "boot"
  /\ outbound = <<>>
  /\ resp = NoResponse
  /\ ClientAtRest
  /\ HeapAtRest

NextRank == RankModuleLoad \/ RankHandleRequest \/ RankHandleReply

SpecRank == InitRank /\ [][NextRank]_vars

-----------------------------------------------------------------------------
(* Inputs of extract-facts *)

MaxDepth == 3

K_name == <<"n","a","m","e">>
K_Name == <<"N","a","m","e">>
K_firstName == <<"f","i","r","s","t","N","a","m","e">>
K_age == <<"a","g","e">>
DocKeys == {K_name, K_Name, K_firstName, K_age}
DocScalars == {JNull, JStr(<<"x">>)}

\* The documents that wrap x once: in an array, alone or after a null, or in an
\* object, alone or beside the scalar property "age".
Wraps(x) ==
  {JArr(<<x>>), JArr(<<JNull, x>>)}
  \cup {JObj([k \in {key} |-> x]) : key \in DocKeys}
  \cup {JObj([k \in {key, K_age} |-> IF k = key THEN x ELSE JStr(<<"x">>)]) :
          key \in DocKeys \ {K_age}}

\* The JSON documents of nesting depth at most d.
RECURSIVE JsonDocs(_)
JsonDocs(d) ==
  IF d = 0 THEN DocScalars
  ELSE DocScalars \cup UNION {Wraps(x) : x \in JsonDocs(d - 1)}

MethodsOf == {"POST", "OPTIONS"}

SampleFacts ==
  JObj([age |-> JNum(55), gender |-> JStr(<<"Male">>),
        conditions |-> JArr(<<JObj([term |-> JStr(<<"diabetes">>)])>>),
        zipCode |-> JStr(<<"10001">>)])

LlmFailureReplies ==
  { NetworkError,
    HttpReply(500, <<Lit(<<"Internal error">>)>>),
    HttpReply(200, <<Ser(JObj([candidates |-> JArr(<<>>)]))>>),
    HttpReply(200, <<Ser(JObj(EmptyFields))>>),
    HttpReply(200, <<Ser(JObj([candidates |-> JArr(<<JObj([content |-> JObj([parts |-> JArr(<<>>)])])>>)]))>>),
    HttpReply(200, <<Ser(GeminiData(<<Lit(<<"Sorry, I cannot help with that.">>)>>))>> ) }

\* Facts that the LLM generates: complete, with required keys omitted, and
\* JSON that is no object.
GeneratedFacts ==
  {SampleFacts,
   JObj([age |-> JNull, gender |-> JNull, conditions |-> JArr(<<>>), zipCode |-> JNull]),
   JObj([age |-> JNum(55), gender |-> JStr(<<"Male">>), conditions |-> JArr(<<>>)]),
   JObj([gender |-> JStr(<<"Male">>), zipCode |-> JStr(<<"10001">>)]),
   JObj([medications |-> JArr(<<JStr(<<"Metformin">>)>>)]),
   JObj(EmptyFields), JArr(<<>>), JNull, JNum(55)}
GoodExtractReply == HttpReply(200, <<Ser(GeminiData(<<Ser(SampleFacts)>>))>>)
ExtractReplies ==
  {HttpReply(200, <<Ser(GeminiData(<<Ser(facts)>>))>>) : facts \in GeneratedFacts}
  \cup LlmFailureReplies

InitExtract ==
  /\ fn = "extract-facts"
  /\ env \in [apiKey : BOOLEAN, year : {2025}]
  /\ \/ /\ req \in {PostJson(doc) : doc \in JsonDocs(MaxDepth)}
        /\ upstream = GoodExtractReply
     \/ /\ req = PostJson(JObj([k \in {K_age} |-> JStr(<<"x">>)]))
        /\ upstream \in ExtractReplies
  /\ pc = "received"
  /\ outbound = <<>>
  /\ resp = NoResponse
  /\ ClientAtRest
  /\ HeapAtRest

NextExtract == ExtractHandleRequest \/ ExtractHandleReply

SpecExtract == InitExtract /\ [][NextExtract]_vars

-----------------------------------------------------------------------------
(* Claims about de-identification *)

\* The document the request carried and the de-identified copy sent to the LLM.
DeidInput == ReqJson(req).v
DeidOutput == outbound[1].payload
DeidRan == fn = "extract-facts" /\ outbound # <<>>

\* Every key of every object in v, at any depth.
RECURSIVE AllKeys(_)
AllKeys(v) ==
  CASE v.t = "array" -> UNION {AllKeys(v.items[i]) : i \in 1..Len(v.items)}
    [] v.t = "object" ->
         DOMAIN v.fields \cup UNION {AllKeys(v.fields[k]) : k \in DOMAIN v.fields}
    [] OTHER -> {}

LowercaseInDenyList(k) == ToLowerCase(k) \in IDENTIFYING_KEYS
MatchesIgnoringCase(k) == \E e \in IDENTIFYING_KEYS : ToLowerCase(e) = ToLowerCase(k)

\* C1: no object anywhere in the de-identified output, at any depth and inside
\* arrays, has a key whose lowercase form is a member of IDENTIFYING_KEYS.
C1_NoDenyListedKeyAtAnyDepth ==
  DeidRan => \A k \in AllKeys(DeidOutput) : ~LowercaseInDenyList(k)

\* C1 witness: a document with a deny-listed key inside an object inside an array
\* was de-identified.
C1_Witness ==
  /\ DeidRan
  /\ DeidInput.t = "object"
  /\ \E k \in DOMAIN DeidInput.fields :
       /\ DeidInput.fields[k].t = "array"
       /\ \E i \in 1..Len(DeidInput.fields[k].items) :
            /\ DeidInput.fields[k].items[i].t = "object"
            /\ \E k2 \in DOMAIN DeidInput.fields[k].items[i].fields : LowercaseInDenyList(k2)

\* out keeps what de-identification must keep of in: a scalar is unchanged, an
\* array keeps its length and its elements in order, an object keeps every key
\* whose lowercase form is not deny-listed (and gains none), each value
\* preserved in turn.
RECURSIVE Preserved(_, _)
Preserved(in, out) ==
  CASE in.t = "array" ->
         /\ out.t = "array"
         /\ Len(out.items) = Len(in.items)
         /\ \A i \in 1..Len(in.items) : Preserved(in.items[i], out.items[i])
    [] in.t = "object" ->
         /\ out.t = "object"
         /\ DOMAIN out.fields \subseteq DOMAIN in.fields
         /\ \A k \in DOMAIN in.fields :
              ~LowercaseInDenyList(k) =>
                 /\ k \in DOMAIN out.fields
                 /\ Preserved(in.fields[k], out.fields[k])
    [] OTHER -> out = in

\* C3: every key not matched by the deny-list is present in the output with its
\* value processed recursively, scalars are unchanged, and every array keeps its
\* length and element order.
C3_NonDenyListedPreserved ==
  DeidRan => Preserved(DeidInput, DeidOutput)

\* C3 witness: a document holding a two-element array under a kept key, beside a
\* deny-listed key, was de-identified.
C3_Witness ==
  /\ DeidRan
  /\ DeidInput.t = "object"
  /\ \E k \in DOMAIN DeidInput.fields :
       /\ ~LowercaseInDenyList(k)
       /\ DeidInput.fields[k].t = "array"
       /\ Len(DeidInput.fields[k].items) = 2
       /\ DeidInput.fields[k].items[2].t = "object"
       /\ \E k2 \in DOMAIN DeidInput.fields[k].items[2].fields : LowercaseInDenyList(k2)

\* C2: every key that equals a deny-list entry ignoring letter case (the entry
\* spelled verbatim included) is dropped from the de-identified copy.
C2_CaseInsensitiveMatchDropped ==
  DeidRan => \A k \in AllKeys(DeidOutput) : ~MatchesIgnoringCase(k)

-----------------------------------------------------------------------------
(* The four edge functions, each serving one request *)

MaxPad == 1

Functions == {"parse-ccd", "extract-facts", "search-trials", "rank-summarize-trials"}
ContentTypes == {XmlContentType, JsonContentTypeOfRequest, <<"text/", "plain">>, <<>>}

BrokenJson == <<Lit(<<"{", "oops">>)>>
BracedText == <<Lit(<<"{", "oops", "}">>)>>

\* What a client may put between the whitespace of a body, for each function
CoresOf(f) ==
  {<<>>, BrokenJson, BracedText, <<Ser(JNull)>>} \cup
  CASE f = "parse-ccd" ->
         {XmlDoc, TestModeText, <<Ser(JObj([xml |-> JStr(XmlDoc)]))>>,
          <<Ser(JObj([xml |-> JStr(TestModeText)]))>>, <<Ser(JObj([xml |-> JNum(5)]))>>}
    [] f = "extract-facts" -> {<<Ser(doc)>> : doc \in JsonDocs(1)}
    [] f = "search-trials" ->
         {<<Ser(p)>> : p \in OddSearchPayloads
                         \cup {JObj([extractedFacts |-> SomeFacts, filters |-> SomeFilters])}}
    [] OTHER -> {<<Ser(p)>> : p \in RankPayloads}

Padding == {[i \in 1..n |-> Space] : n \in 0..MaxPad}
Bodies(f) == {NoBody} \cup {Body(l \o core \o r) : l \in Padding, r \in Padding, core \in CoresOf(f)}

RepliesOf(f) ==
  CASE f = "parse-ccd" -> {HttpReply(200, <<Ser(GeminiData(<<Ser(FullDoc)>>))>>), HttpReply(500, <<>>)}
    [] f = "extract-facts" -> {HttpReply(200, <<Ser(GeminiData(<<Ser(SampleFacts)>>))>>)} \cup LlmFailureReplies
    [] f = "search-trials" -> {GoodRegistryReply, HttpReply(503, <<>>)}
    [] OTHER -> {HttpReply(200, <<Ser(GeminiData(<<Ser(JArr(<<Ranked("NCT01", 87)>>))>>))>>),
                 HttpReply(429, <<Lit(<<"quota">>)>>)}

\* A well-formed request of each function, and everything its upstream may answer
UsualRequest(f) ==
  CASE f = "parse-ccd" -> [method |-> "POST", contentType |-> XmlContentType, body |-> Body(XmlDoc)]
    [] f = "extract-facts" -> PostJson(JObj([k \in {K_age} |-> JStr(<<"x">>)]))
    [] f = "search-trials" -> PostJson(JObj([extractedFacts |-> SomeFacts, filters |-> SomeFilters]))
    [] OTHER -> PostJson(JObj([extractedFacts |-> SomeFacts,
                               trials |-> JArr(<<Study("NCT01"), Study("NCT02")>>)]))
AllRepliesOf(f) ==
  CASE f = "parse-ccd" -> ParseReplies
    [] f = "extract-facts" -> ExtractReplies
    [] f = "search-trials" -> RegistryReplies
    [] OTHER -> RankReplies

Init ==
  /\ fn \in Functions
  /\ env \in [apiKey : BOOLEAN, year : {2025}]
  /\ \/ /\ req \in [method : MethodsOf, contentType : ContentTypes, body : Bodies(fn)]
        /\ upstream \in RepliesOf(fn)
     \/ /\ req = UsualRequest(fn)
        /\ upstream \in AllRepliesOf(fn)
  /\ pc = IF fn = "rank-summarize-trials" THEN "boot" ELSE "received"
  /\ outbound = <<>>
  /\ resp = NoResponse
  /\ ClientAtRest
  /\ HeapAtRest

Next ==
  \/ ParseHandleRequest
  \/ ParseHandleReply
  \/ ExtractHandleRequest
  \/ ExtractHandleReply
  \/ SearchHandleRequest
  \/ SearchHandleReply
  \/ RankModuleLoad
  \/ RankHandleRequest
  \/ RankHandleReply

Spec == Init /\ [][Next]_vars

-----------------------------------------------------------------------------
(* Claims about the post-validation of parse-ccd *)

\* The JSON value that the handler parses out of the model's reply, if any.
GeneratedJson ==
  IF ~upstream.arrives \/ ~upstream.ok THEN Throws(<<>>)
  ELSE LET geminiData == JsonParse(upstream.text) IN
    IF ~geminiData.ok THEN Throws(<<>>)
    ELSE LET text == GeneratedText(geminiData.v) IN
      IF ~text.ok THEN Throws(<<>>) ELSE JsonParse(text.v)

\* A 200 response to a POST that went through the model.
ParseSucceeded ==
  /\ fn = "parse-ccd"
  /\ req.method = "POST"
  /\ pc = "responded"
  /\ resp.status = 200
  /\ outbound # <<>>

ParseResult == ResponseJson(resp).v
ListFields == {arrayFields[i] : i \in DOMAIN arrayFields}

\* C6: in every 200 response of the parse stage each of conditions, medications,
\* allergies and procedures is an array, whatever JSON the model generated
\* (objects that omit the fields and values that are not objects included).
C6_ListFieldsAlwaysArrays ==
  ParseSucceeded => \A f \in ListFields : IsArray(Get(ParseResult, f))

\* The year that the first four characters of a date spell, when they are digits.
HasFourDigitYear(s) == Len(s) >= 4 /\ \A i \in 1..4 : IsDigit(s[i])
FourDigitYear(s) ==
  1000 * DigitValue(s[1]) + 100 * DigitValue(s[2]) + 10 * DigitValue(s[3]) + DigitValue(s[4])
HasValidBirthYear(birthDate, currentYear) ==
  /\ birthDate.t = "string"
  /\ HasFourDigitYear(birthDate.s)
  /\ FourDigitYear(birthDate.s) > 1900
  /\ FourDigitYear(birthDate.s) < currentYear

GeneratedDemographics == Get(GeneratedJson.v, "demographics")
HasNumericAge ==
  /\ ParseSucceeded
  /\ IsObject(GeneratedJson.v)
  /\ IsObject(GeneratedDemographics)
  /\ Get(GeneratedDemographics, "age").t = "number"

\* C7: a numeric demographics.age outside [2,120] is replaced by current year
\* minus birth year when birthDate starts with a four-digit year strictly between
\* 1900 and the current year, and by null otherwise; an age inside [2,120] is
\* left unchanged.
C7_ImplausibleAgeRecomputed ==
  HasNumericAge =>
    LET age == Get(GeneratedDemographics, "age")
        birthDate == Get(GeneratedDemographics, "birthDate")
        result == Get(Get(ParseResult, "demographics"), "age") IN
    IF age.n \in 2..120 THEN result = age
    ELSE IF HasValidBirthYear(birthDate, env.year)
      THEN result = JNum(env.year - FourDigitYear(birthDate.s))
      ELSE result = JNull

C7_Witness ==
  /\ HasNumericAge
  /\ Get(GeneratedDemographics, "age") = JNum(200)
  /\ Get(GeneratedDemographics, "birthDate") = JStr(D_1950)
  /\ Get(Get(ParseResult, "demographics"), "age") = JNum(env.year - 1950)

\* The value that the schema in the prompt (lines 173-203) shows for a field.
SchemaPlaceholder(f) == IF f = "birthDate" THEN JStr(S_YYYYMMDD) ELSE JStr(S_string)

\* C8: in every 200 response no demographics field and no vitalSigns field is the
\* placeholder that the prompt's schema shows for it, and no entry of conditions,
\* medications, allergies or procedures is "string", "N/A" or null.
C8_NoPlaceholderSurvives ==
  ParseSucceeded =>
    /\ \A f \in DemographicFields :
         Get(Get(ParseResult, "demographics"), f) # SchemaPlaceholder(f)
    /\ \A i \in DOMAIN vitalSignFields :
         Get(Get(ParseResult, "vitalSigns"), vitalSignFields[i])
           # SchemaPlaceholder(vitalSignFields[i])
    /\ \A f \in ListFields :
         IsArray(Get(ParseResult, f)) =>
           \A i \in 1..Len(Get(ParseResult, f).items) :
             Get(ParseResult, f).items[i] \notin {JStr(S_string), JStr(S_NA), JNull}

-----------------------------------------------------------------------------
(* Claims about the filter that search-trials builds *)

\* The search request went out to the registry.
SearchIssued ==
  /\ fn = "search-trials"
  /\ outbound # <<>>
  /\ outbound[1].service = "registry"

GivenFilters == Get(ReqJson(req).v, "filters")
GivenStatus == Get(GivenFilters, "recruitingStatus")

\* The value of the filter.advanced parameter of the issued request, or the
\* empty text when the parameter is not set.
FilterAdvanced ==
  LET query == outbound[1].payload.query IN
  IF \E i \in DOMAIN query : query[i][1] = "filter.advanced"
    THEN query[CHOOSE i \in DOMAIN query : query[i][1] = "filter.advanced"][2]
    ELSE <<>>

\* The clauses of a filter text: its parts between the " AND " separators.
RECURSIVE ClausesOf(_, _)
ClausesOf(text, clause) ==
  IF text = <<>> THEN (IF clause = <<>> THEN {} ELSE {clause})
  ELSE IF Head(text) = " AND " THEN {clause} \cup ClausesOf(Tail(text), <<>>)
  ELSE ClausesOf(Tail(text), Append(clause, Head(text)))
FilterClauses == ClausesOf(FilterAdvanced, <<>>)
StatusClauses == {c \in FilterClauses : Head(c) = "STATUS "}

\* C9 as stated: 'ANY' gives no STATUS clause, an absent recruitingStatus gives
\* the clause STATUS RECRUITING, and any other given value v gives STATUS v.
C9_StatusClauseAsStated ==
  SearchIssued =>
    IF GivenStatus = JStr(<<"ANY">>) THEN StatusClauses = {}
    ELSE IF GivenStatus = Undefined THEN StatusClauses = {<<"STATUS ", "RECRUITING">>}
    ELSE StatusClauses = {<<"STATUS ">> \o ToText(GivenStatus)}

\* C9, amended: 'ANY' gives no STATUS clause; an absent, null, empty or otherwise
\* falsy recruitingStatus gives the clause STATUS RECRUITING; any other value v
\* gives STATUS v.
C9_StatusClause ==
  SearchIssued =>
    IF GivenStatus = JStr(<<"ANY">>) THEN StatusClauses = {}
    ELSE IF ~Truthy(GivenStatus) THEN StatusClauses = {<<"STATUS ", "RECRUITING">>}
    ELSE StatusClauses = {<<"STATUS ">> \o ToText(GivenStatus)}

C9_Witness ==
  /\ SearchIssued
  /\ GivenStatus = JStr(<<"COMPLETED">>)
  /\ Get(GivenFilters, "conditionKeyword") = JStr(<<"diabetes">>)
  /\ <<"STATUS ", "COMPLETED">> \in FilterClauses
  /\ <<"AREA[Condition] ", "diabetes">> \in FilterClauses

-----------------------------------------------------------------------------
(* Claims about the short-circuit of rank-summarize-trials *)

\* A POST to the rank stage whose trials member is the empty array.
EmptyTrialsRequest ==
  /\ fn = "rank-summarize-trials"
  /\ req.method = "POST"
  /\ req.body.present
  /\ ReqJson(req).ok
  /\ Get(ReqJson(req).v, "trials") = JArr(<<>>)

\* C10: for a request whose trials is the empty array the rank handler issues no
\* outbound request, and its response is 200 with the JSON array [].
C10_EmptyTrialsShortCircuit ==
  EmptyTrialsRequest =>
    /\ outbound = <<>>
    /\ pc # "awaiting"
    /\ pc = "responded" => (resp.status = 200 /\ ResponseJson(resp) = Ok(JArr(<<>>)))

C10_Witness ==
  /\ EmptyTrialsRequest
  /\ pc = "responded"
  /\ resp.status = 200
  /\ ResponseJson(resp) = Ok(JArr(<<>>))
  /\ outbound = <<>>

-----------------------------------------------------------------------------
(* Claims about request bodies, for all four handlers *)

\* A POST without a request body; for the parse stage, with an empty or
\* whitespace-only body.
MissingBody ==
  /\ req.method = "POST"
  /\ IF fn = "parse-ccd" THEN Trim(ReqText(req)) = <<>> ELSE ~req.body.present

BadRequestWithError == resp.status = 400 /\ HasErrorField(resp)

\* C4 as stated: whatever the configuration, each of the four stages answers a
\* POST without a body with status 400 and a JSON body that has an error field.
C4_MissingBody400AsStated ==
  MissingBody => /\ pc # "crashed"
                 /\ pc = "responded" => BadRequestWithError

\* C4, amended: extract and search answer a POST without a body with status 400
\* and an error field whatever the configuration; parse and rank do so when
\* GOOGLE_API_KEY is set, and issue no outbound request.
C4_MissingBody400 ==
  (MissingBody /\ (fn \in {"parse-ccd", "rank-summarize-trials"} => env.apiKey)) =>
     /\ pc \notin {"crashed", "awaiting"}
     /\ outbound = <<>>
     /\ pc = "responded" => BadRequestWithError

C4_Witness ==
  /\ fn = "parse-ccd"
  /\ env.apiKey
  /\ req.method = "POST"
  /\ req.body = Body(<<Space>>)
  /\ pc = "responded"
  /\ BadRequestWithError

\* A POST whose body is present but is not JSON, where the handler expects JSON
\* (the parse stage: when the content type says json), with the API key set.
UnparsableJsonBody ==
  /\ req.method = "POST"
  /\ req.body.present
  /\ Trim(ReqText(req)) # <<>>
  /\ ~ReqJson(req).ok
  /\ env.apiKey
  /\ fn = "parse-ccd" =>
       (Includes(req.contentType, "json") /\ ~Includes(req.contentType, "xml"))

\* C5: a body that is present but unparsable as JSON is answered with status
\* 400, never 500, by the parse, extract, search and rank handlers.
C5_UnparsableBody400 ==
  (UnparsableJsonBody /\ pc = "responded") => resp.status = 400

-----------------------------------------------------------------------------
(* Claims about what the rank and extract stages pass on from the LLM *)

GivenTrials == Get(ReqJson(req).v, "trials")

\* The rank stage answered 200 for a non-empty trial list.
RankSucceeded ==
  /\ fn = "rank-summarize-trials"
  /\ req.method = "POST"
  /\ pc = "responded"
  /\ resp.status = 200
  /\ outbound # <<>>

IsPercentage(v) == v.t = "number" /\ v.n >= 0 /\ v.n <= 100

\* C11: whenever the rank stage responds 200 for a non-empty trial list, the
\* returned array has one entry per input trial and every entry's
\* matchPercentage is between 0 and 100 inclusive.
C11_OneEntryPerTrialInRange ==
  RankSucceeded =>
    LET ranked == ResponseJson(resp).v IN
    /\ IsArray(ranked)
    /\ Len(ranked.items) = Len(GivenTrials.items)
    /\ \A i \in 1..Len(ranked.items) : IsPercentage(Get(ranked.items[i], "matchPercentage"))

\* The extract stage answered 200 with what the LLM generated.
ExtractSucceeded ==
  /\ fn = "extract-facts"
  /\ req.method = "POST"
  /\ pc = "responded"
  /\ resp.status = 200

RequiredFactKeys == {"age", "gender", "conditions", "zipCode"}

\* C12: every 200 response of the extract stage is an object that has the
\* required keys age, gender, conditions and zipCode.
C12_RequiredKeysPresent ==
  ExtractSucceeded =>
    /\ IsObject(ResponseJson(resp).v)
    /\ RequiredFactKeys \subseteq DOMAIN ResponseJson(resp).v.fields

-----------------------------------------------------------------------------
(* Claims about failures: configuration, upstream, retries *)

MissingApiKeyMessage == <<"Server configuration error: Missing API key.">>

\* C13: without the LLM API key a POST to the parse stage is answered with 500
\* and the fixed message, and neither parse nor extract issues an outbound
\* request.
C13_MissingKeyFailsFast ==
  ~env.apiKey =>
    /\ fn \in {"parse-ccd", "extract-facts"} => (outbound = <<>> /\ pc # "awaiting")
    /\ (fn = "parse-ccd" /\ req.method = "POST" /\ pc = "responded") =>
         /\ resp.status = 500
         /\ ResponseJson(resp) = Ok(JObj([error |-> JStr(MissingApiKeyMessage)]))

C13_Witness ==
  /\ ~env.apiKey
  /\ fn = "parse-ccd"
  /\ req.method = "POST"
  /\ req.body = Body(XmlDoc)
  /\ pc = "responded"
  /\ resp.status = 500
  /\ ResponseJson(resp) = Ok(JObj([error |-> JStr(MissingApiKeyMessage)]))
  /\ outbound = <<>>

\* The words of a text made of literal pieces, as response.text() returns them.
RECURSIVE LitWords(_)
LitWords(text) ==
  IF text = <<>> THEN <<>>
  ELSE (IF Head(text).p = "lit" THEN Head(text).s ELSE <<"[json]">>) \o LitWords(Tail(text))

\* words occur in msg, contiguously and in order
ContainsWords(msg, words) ==
  \E i \in 0..(Len(msg) - Len(words)) : SubSeq(msg, i + 1, i + Len(words)) = words

\* The registry answered the search stage's GET with a non-success status.
RegistryRefused ==
  /\ fn = "search-trials"
  /\ outbound # <<>>
  /\ upstream.arrives
  /\ ~upstream.ok
  /\ pc = "responded"

ErrorMessageOf(r) == ResponseJson(r).v.fields.error.s

\* C14: when the registry answers with a non-success status, the search stage
\* responds 500 with an error that carries the upstream status code and the
\* upstream response body.
C14_RegistryErrorCarriesStatusAndBody ==
  RegistryRefused =>
    /\ resp.status = 500
    /\ HasErrorField(resp)
    /\ ContainsWords(ErrorMessageOf(resp), <<ToString(upstream.status)>>)
    /\ ContainsWords(ErrorMessageOf(resp), LitWords(upstream.text))

\* The extract or rank stage has the answer to its LLM request.
LlmAnswered ==
  /\ fn \in {"extract-facts", "rank-summarize-trials"}
  /\ outbound # <<>>
  /\ pc = "responded"

\* The ways the LLM request fails: the call itself, a body that is not JSON,
\* no candidate or no content part, and generated text that is not JSON.
LlmCallFailed == ~upstream.arrives \/ ~upstream.ok
LlmBodyMalformed == ~LlmCallFailed /\ ~JsonParse(upstream.text).ok
LlmParts ==
  OptGet(OptGet(OptFirst(OptGet(JsonParse(upstream.text).v, "candidates")), "content"), "parts")
LlmEmpty ==
  /\ ~LlmCallFailed /\ ~LlmBodyMalformed
  /\ (~IsArray(LlmParts) \/ Len(LlmParts.items) = 0)
LlmTextMalformed ==
  /\ ~LlmCallFailed /\ ~LlmBodyMalformed /\ ~LlmEmpty
  /\ OptGet(OptFirst(LlmParts), "text").t = "string"
  /\ ~JsonParse(OptGet(OptFirst(LlmParts), "text").s).ok

\* C15: in the extract and rank stages a failed LLM call, a response with zero
\* candidates or empty content parts, and LLM text that is not valid JSON each
\* end the request with 500 and a JSON error message, never with 200.
C15_UpstreamFailureIs500 ==
  (LlmAnswered /\ (LlmCallFailed \/ LlmBodyMalformed \/ LlmEmpty \/ LlmTextMalformed)) =>
    (resp.status = 500 /\ HasErrorField(resp))

C15_Witness ==
  /\ LlmAnswered
  /\ fn = "rank-summarize-trials"
  /\ LlmEmpty
  /\ resp.status = 500
  /\ HasErrorField(resp)

UpstreamFailed == ~upstream.arrives \/ ~upstream.ok

\* C16: handling one request a stage issues at most one outbound request, and
\* the step that follows the upstream's answer issues none: it responds, with
\* 500 when the upstream request failed.
C16_NoRetries ==
  [][/\ Len(outbound') <= 1
     /\ pc = "awaiting" =>
          /\ outbound' = outbound
          /\ pc' = "responded"
          /\ UpstreamFailed => resp'.status = 500]_vars

C16_Witness ==
  /\ pc = "responded"
  /\ Len(outbound) = 1
  /\ UpstreamFailed
  /\ resp.status = 500

-----------------------------------------------------------------------------
(* The browser client: the UploadData component and the Home page.  A handler  *)
(* runs without interruption up to its next await; what follows the await runs *)
(* when the invocation's response arrives, with the values the handler read    *)
(* when it was called.                                                         *)

MaxCalls == 5

\* What the upload panel holds: nothing, a document, or content that handleParse
\* rejects before invoking (white space only, an empty file, JSON text that
\* JSON.parse rejects).
Inputs == {"none", "document", "unusable"}

\* supabase.functions.invoke(fn, {body}): the request sent, awaiting { data, error }
Invocation(id, name, body) == [id |-> id, fn |-> name, body |-> body]

Invoke(name, body) ==
  LET call == Invocation(Len(issued) + 1, name, body) IN
  /\ calls' = calls \cup {call}
  /\ issued' = Append(issued, call)

ParsedData(id) == JObj([document |-> JNum(id)])
FactsOf(data) == JObj([factsOf |-> data])
Trial(id) == JObj([nctId |-> JStr(<<id>>)])
RankedTrial(id) == JObj([nctId |-> JStr(<<id>>), matchPercentage |-> JNum(90)])

DataOf(call) ==
  CASE call.fn = "parse-ccd" -> {ParsedData(call.id), JNull}
    [] call.fn = "extract-facts" -> {FactsOf(call.body), JNull}
    [] call.fn = "search-trials" -> {JArr(<<>>), JArr(<<Trial("NCT01")>>), JNull}
    [] call.fn = "rank-summarize-trials" -> {JArr(<<RankedTrial("NCT01")>>), JNull}

FunctionsErrors ==
  {JObj([message |-> JStr(m)]) : m \in {<<"Edge Function returned a non-2xx status code">>, <<>>}}

OutcomesOf(call) ==
  {[data |-> d, error |-> JNull] : d \in DataOf(call)}
    \cup {[data |-> JNull, error |-> e] : e \in FunctionsErrors}

\* error.message || fallback
MessageOr(error, fallback) ==
  IF Truthy(Get(error, "message")) THEN Get(error, "message") ELSE JStr(fallback)

\* upload-data.tsx lines 28-41, 52-62: handleFileChange, handleTextChange, handleDrop
HandleInputChange ==
  /\ \E input \in Inputs : upload' = [status |-> "idle", input |-> input]
  /\ UNCHANGED <<page, calls, issued, lastExtract>>

\* upload-data.tsx line 162: the Parse button's disabled attribute
ParseDisabled == upload.status = "parsing" \/ upload.input = "none"

\* upload-data.tsx lines 66-93: handleParse up to the invocation
HandleParse ==
  /\ ~ParseDisabled
  /\ Len(issued) < MaxCalls
  /\ IF upload.input = "unusable"
       THEN /\ upload' = [upload EXCEPT !.status = "error"]
            /\ UNCHANGED <<calls, issued>>
       ELSE /\ upload' = [upload EXCEPT !.status = "parsing"]
            /\ Invoke("parse-ccd", JObj([xml |-> JStr(<<"ccd">>)]))
  /\ UNCHANGED <<page, lastExtract>>

\* page.tsx lines 71-80
handleParseSuccess(data) ==
  [page EXCEPT !.initialParsedData = data, !.extractedFacts = JNull,
               !.rawTrials = JArr(<<>>), !.rankedTrials = JArr(<<>>),
               !.errorMessage = JNull, !.processingStep = "parsed"]

\* upload-data.tsx lines 93-109: handleParse after the invocation
ParseReturns ==
  \E call \in calls : \E outcome \in OutcomesOf(call) :
    /\ call.fn = "parse-ccd"
    /\ calls' = calls \ {call}
    /\ IF Truthy(outcome.error)
         THEN /\ upload' = [upload EXCEPT !.status = "error"]
              /\ UNCHANGED page
         ELSE /\ upload' = [upload EXCEPT !.status = "success"]
              /\ page' = handleParseSuccess(outcome.data)
    /\ UNCHANGED <<issued, lastExtract>>

\* page.tsx lines 253-259: the Extract button is rendered
ExtractShown == page.processingStep = "parsed" /\ ~Truthy(page.errorMessage)

\* page.tsx lines 82-94: handleExtractFacts up to the invocation
HandleExtractFacts ==
  /\ ExtractShown
  /\ Len(issued) < MaxCalls
  /\ IF ~Truthy(page.initialParsedData)
       THEN /\ page' = [page EXCEPT
                 !.errorMessage = JStr(<<"Cannot extract facts without parsed data.">>),
                 !.processingStep = "error"]
            /\ UNCHANGED <<calls, issued>>
       ELSE /\ page' = [page EXCEPT !.processingStep = "extracting", !.errorMessage = JNull]
            /\ Invoke("extract-facts", page.initialParsedData)
  /\ UNCHANGED <<upload, lastExtract>>

\* Mutant: a failed extraction sets the step without a message.
ExtractReturns_NoMessage ==
  \E call \in calls : \E outcome \in OutcomesOf(call) :
    /\ call.fn = "extract-facts"
    /\ calls' = calls \ {call}
    /\ IF Truthy(outcome.error)
         THEN /\ page' = [page EXCEPT !.processingStep = "error"]
              /\ lastExtract' = "failed"
         ELSE /\ page' = [page EXCEPT !.extractedFacts = outcome.data, !.processingStep = "idle"]
              /\ lastExtract' = "ok"
    /\ UNCHANGED <<upload, issued>>

\* page.tsx lines 96-112: handleExtractFacts after the invocation
ExtractReturns ==
  \E call \in calls : \E outcome \in OutcomesOf(call) :
    /\ call.fn = "extract-facts"
    /\ calls' = calls \ {call}
    /\ IF Truthy(outcome.error)
         THEN /\ page' = [page EXCEPT
                   !.errorMessage = MessageOr(outcome.error, <<"Failed to extract facts.">>),
                   !.processingStep = "error"]
              /\ lastExtract' = "failed"
         ELSE /\ page' = [page EXCEPT !.extractedFacts = outcome.data, !.processingStep = "idle"]
              /\ lastExtract' = "ok"
    /\ UNCHANGED <<upload, issued>>

\* page.tsx lines 283, 295: the filter controls and the Find button are rendered
FindShown == Truthy(page.extractedFacts)

\* page.tsx line 298: the Find button's disabled attribute
FindDisabled == page.processingStep \in {"searching", "ranking"}

\* page.tsx lines 115-135: handleSearchAndRank up to the search invocation
HandleSearchAndRank ==
  /\ FindShown /\ ~FindDisabled
  /\ Len(issued) < MaxCalls
  /\ page' = [page EXCEPT !.rawTrials = JArr(<<>>), !.rankedTrials = JArr(<<>>),
                          !.errorMessage = JNull, !.processingStep = "searching"]
  /\ Invoke("search-trials",
            JObj([extractedFacts |-> page.extractedFacts, filters |-> page.filters]))
  /\ UNCHANGED <<upload, lastExtract>>

SearchRankError(error) ==
  [page EXCEPT
     !.errorMessage = MessageOr(error, <<"An error occurred during trial search or ranking.">>),
     !.processingStep = "error"]

\* Mutant: the trials are ranked whatever their number.
SearchReturns_RanksEmpty ==
  \E call \in calls : \E outcome \in OutcomesOf(call) :
    /\ call.fn = "search-trials"
    /\ IF Truthy(outcome.error)
         THEN /\ page' = SearchRankError(outcome.error)
              /\ calls' = calls \ {call}
              /\ UNCHANGED issued
         ELSE LET currentRawTrials == IF IsArray(outcome.data) THEN outcome.data ELSE JArr(<<>>)
                  next == Invocation(Len(issued) + 1, "rank-summarize-trials",
                            JObj([extractedFacts |-> Get(call.body, "extractedFacts"),
                                  trials |-> currentRawTrials])) IN
              /\ Len(issued) < MaxCalls
              /\ page' = [page EXCEPT !.rawTrials = currentRawTrials, !.processingStep = "ranking"]
              /\ calls' = (calls \ {call}) \cup {next}
              /\ issued' = Append(issued, next)
    /\ UNCHANGED <<upload, lastExtract>>

\* page.tsx lines 137-160, 176-180: handleSearchAndRank between the two invocations
SearchReturns ==
  \E call \in calls : \E outcome \in OutcomesOf(call) :
    /\ call.fn = "search-trials"
    /\ IF Truthy(outcome.error)
         THEN /\ page' = SearchRankError(outcome.error)
              /\ calls' = calls \ {call}
              /\ UNCHANGED issued
         ELSE LET currentRawTrials == IF IsArray(outcome.data) THEN outcome.data ELSE JArr(<<>>) IN
              IF Len(currentRawTrials.items) = 0
                THEN /\ page' = [page EXCEPT !.rawTrials = currentRawTrials,
                                             !.processingStep = "complete"]
                     /\ calls' = calls \ {call}
                     /\ UNCHANGED issued
                ELSE LET next == Invocation(Len(issued) + 1, "rank-summarize-trials",
                                   JObj([extractedFacts |-> Get(call.body, "extractedFacts"),
                                         trials |-> currentRawTrials])) IN
                     /\ Len(issued) < MaxCalls
                     /\ page' = [page EXCEPT !.rawTrials = currentRawTrials,
                                             !.processingStep = "ranking"]
                     /\ calls' = (calls \ {call}) \cup {next}
                     /\ issued' = Append(issued, next)
    /\ UNCHANGED <<upload, lastExtract>>

\* page.tsx lines 162-180: handleSearchAndRank after the rank invocation
RankReturns ==
  \E call \in calls : \E outcome \in OutcomesOf(call) :
    /\ call.fn = "rank-summarize-trials"
    /\ calls' = calls \ {call}
    /\ IF Truthy(outcome.error)
         THEN page' = SearchRankError(outcome.error)
         ELSE page' = [page EXCEPT
                !.rankedTrials = IF IsArray(outcome.data) THEN outcome.data ELSE JArr(<<>>),
                !.processingStep = "complete"]
    /\ UNCHANGED <<upload, issued, lastExtract>>

FilterChanges == {[recruitingStatus |-> JStr(<<"ANY">>)], [recruitingStatus |-> JStr(<<"RECRUITING">>)]}

\* page.tsx lines 186-188, rendered when line 283 holds
HandleFiltersChange ==
  /\ FindShown
  /\ \E newFilters \in FilterChanges :
       page' = [page EXCEPT !.filters = JObj(newFilters @@ page.filters.fields)]
  /\ UNCHANGED <<upload, calls, issued, lastExtract>>

ServerAtRest ==
  /\ fn = "none"
  /\ env = [apiKey |-> TRUE, year |-> 2025]
  /\ req = [method |-> "POST", contentType |-> JsonContentTypeOfRequest, body |-> NoBody]
  /\ upstream = NetworkError
  /\ pc = "boot"
  /\ outbound = <<>>
  /\ resp = NoResponse

serverVars == <<fn, env, req, upstream, pc, outbound, resp>>

InitClient == ServerAtRest /\ ClientAtRest /\ HeapAtRest

NextClient ==
  /\ \/ HandleInputChange
     \/ HandleParse
     \/ ParseReturns
     \/ HandleExtractFacts
     \/ ExtractReturns
     \/ HandleSearchAndRank
     \/ SearchReturns
     \/ RankReturns
     \/ HandleFiltersChange
  /\ UNCHANGED <<serverVars, heapVars>>

SpecClient == InitClient /\ [][NextClient]_vars

-----------------------------------------------------------------------------
(* Claims about the order of the client's invocations *)

NewCalls == {Invocation(i, issued'[i].fn, issued'[i].body) : i \in (Len(issued) + 1)..Len(issued')}

\* C17: whenever the extract invocation that completed last has failed, no
\* search and no rank request is issued, until an extract invocation succeeds.
C17_FailedExtractBlocksSearchAndRank ==
  [][lastExtract = "failed" =>
       \A call \in NewCalls : call.fn \notin {"search-trials", "rank-summarize-trials"}]_vars

\* C18: at no time are two stage invocations in flight.
C18_OneInvocationInFlight == Cardinality(calls) <= 1

-----------------------------------------------------------------------------
(* Claims about response headers *)

SharedCorsHeaders ==
  { <<"Access-Control-Allow-Origin", "*">>, <<"Access-Control-Allow-Methods", "POST, OPTIONS">> }

\* C19: every response of the four handlers (success, error, preflight) carries
\* Access-Control-Allow-Origin '*' and Access-Control-Allow-Methods 'POST, OPTIONS'.
C19_EveryResponseCarriesCors ==
  pc = "responded" => SharedCorsHeaders \subseteq resp.headers

C19_Witness ==
  /\ pc = "responded"
  /\ req.method = "POST"
  /\ resp.status = 500
  /\ Len(outbound) = 1
  /\ HasErrorField(resp)

-----------------------------------------------------------------------------
(* extract-facts on an object graph.  An array or object lives in a cell of    *)
(* heap and is held by reference, so that writing to an object is seen by      *)
(* every holder of it; a primitive is held by value.                           *)

Ref(a) == [t |-> "ref", a |-> a]

Allocated(h, val) == [heap |-> h, val |-> val]

\* JSON.stringify(val), as the value that the text denotes
RECURSIVE Load(_, _)
Load(h, val) ==
  IF val.t # "ref" THEN val
  ELSE LET cell == h[val.a] IN
    IF IsArray(cell)
      THEN JArr([i \in 1..Len(cell.items) |-> Load(h, cell.items[i])])
      ELSE JObj([key \in DOMAIN cell.fields |-> Load(h, cell.fields[key])])

\* JSON.parse of the text that denotes v: every array and object is newly allocated
RECURSIVE Store(_, _)
RECURSIVE StoreItems(_, _, _)
RECURSIVE StoreFields(_, _, _, _)
Store(h, v) ==
  IF IsArray(v)
    THEN LET r == StoreItems(h, v.items, <<>>) IN
         Allocated(Append(r.heap, JArr(r.val)), Ref(Len(r.heap) + 1))
  ELSE IF IsObject(v)
    THEN LET r == StoreFields(h, v.fields, DOMAIN v.fields, EmptyFields) IN
         Allocated(Append(r.heap, JObj(r.val)), Ref(Len(r.heap) + 1))
  ELSE Allocated(h, v)

StoreItems(h, items, done) ==
  IF items = <<>> THEN Allocated(h, done)
  ELSE LET r == Store(h, Head(items)) IN StoreItems(r.heap, Tail(items), Append(done, r.val))

StoreFields(h, fields, keys, done) ==
  IF keys = {} THEN Allocated(h, done)
  ELSE LET key == CHOOSE k \in keys : TRUE
           r == Store(h, fields[key]) IN
       StoreFields(r.heap, fields, keys \ {key}, (key :> r.val) @@ done)

\* JSON.parse(JSON.stringify(val))
DeepCopy(h, val) == Store(h, JsonClone(Load(h, val)))

\* Lines 82-107 on the object graph: data.map allocates the array it returns,
\* cleanObject is allocated empty and assigned key by key; data is only read.
RECURSIVE deIdentifyDataRecursiveAt(_, _)
RECURSIVE MapItems(_, _, _, _)
RECURSIVE CleanFields(_, _, _, _)
deIdentifyDataRecursiveAt(h, data) ==
  IF data.t = "ref" /\ IsArray(h[data.a])
    THEN LET r == MapItems(h, data.a, 1, <<>>) IN
         Allocated(Append(r.heap, JArr(r.val)), Ref(Len(r.heap) + 1))
  ELSE IF data.t = "ref"
    THEN LET cleanObject == Ref(Len(h) + 1) IN
         CleanFields(Append(h, JObj(EmptyFields)), data.a, DOMAIN h[data.a].fields, cleanObject)
  ELSE Allocated(h, data)

MapItems(h, array, i, done) ==
  IF i > Len(h[array].items) THEN Allocated(h, done)
  ELSE LET r == deIdentifyDataRecursiveAt(h, h[array].items[i]) IN
       MapItems(r.heap, array, i + 1, Append(done, r.val))

CleanFields(h, data, keys, cleanObject) ==
  IF keys = {} THEN Allocated(h, cleanObject)
  ELSE LET key == CHOOSE k \in keys : TRUE IN
    IF IsIdentifyingKey(key) THEN CleanFields(h, data, keys \ {key}, cleanObject)
    ELSE LET r == deIdentifyDataRecursiveAt(h, h[data].fields[key]) IN
         CleanFields([r.heap EXCEPT ![cleanObject.a] = JObj((key :> r.val) @@ @.fields)],
                     data, keys \ {key}, cleanObject)

\* Mutant: the identifying keys are deleted from inputData itself.
deIdentifyDataAt_InPlace(h, inputData) ==
  IF inputData.t = "ref" /\ IsObject(h[inputData.a])
    THEN Allocated([h EXCEPT ![inputData.a] =
                      JObj([key \in {k \in DOMAIN @.fields : ~IsIdentifyingKey(k)} |-> @.fields[key]])],
                   inputData)
    ELSE Allocated(h, inputData)

\* Lines 109-116
deIdentifyDataAt(h, inputData) ==
  LET dataCopy == DeepCopy(h, inputData) IN
  deIdentifyDataRecursiveAt(dataCopy.heap, dataCopy.val)

\* Line 130: parsedInputData = await req.json()
ReadRequestJson ==
  /\ fn = "extract-facts" /\ pc = "received"
  /\ locals = NoLocals
  /\ req.method = "POST" /\ req.body.present /\ ReqJson(req).ok
  /\ LET r == Store(heap, ReqJson(req).v) IN
       /\ heap' = r.heap
       /\ locals' = [at |-> "parsed", parsedInputData |-> r.val]
  /\ UNCHANGED <<fn, env, req, upstream, pc, outbound, resp, clientVars>>

\* Line 134, the argument: JSON.parse(JSON.stringify(parsedInputData))
CopyParsedInput ==
  /\ locals.at = "parsed"
  /\ LET r == DeepCopy(heap, locals.parsedInputData) IN
       /\ heap' = r.heap
       /\ locals' = [at |-> "copied", parsedInputData |-> locals.parsedInputData,
                     inputData |-> r.val]
  /\ UNCHANGED <<fn, env, req, upstream, pc, outbound, resp, clientVars>>

\* Line 134, the call: deIdentifiedData = deIdentifyData(...)
CallDeIdentifyData ==
  /\ locals.at = "copied"
  /\ LET r == deIdentifyDataAt(heap, locals.inputData) IN
       /\ heap' = r.heap
       /\ locals' = [at |-> "deIdentified", parsedInputData |-> locals.parsedInputData,
                     inputData |-> locals.inputData, deIdentifiedData |-> r.val]
  /\ UNCHANGED <<fn, env, req, upstream, pc, outbound, resp, clientVars>>

InitDeid ==
  /\ fn = "extract-facts"
  /\ env = [apiKey |-> TRUE, year |-> 2025]
  /\ req \in {PostJson(doc) : doc \in JsonDocs(MaxDepth)}
  /\ upstream = GoodExtractReply
  /\ pc = "received"
  /\ outbound = <<>>
  /\ resp = NoResponse
  /\ ClientAtRest
  /\ HeapAtRest

NextDeid == ReadRequestJson \/ CopyParsedInput \/ CallDeIdentifyData

SpecDeid == InitDeid /\ [][NextDeid]_vars

\* The object graph computes what the handler's value-level definition computes.
DeidOnHeapAgrees ==
  locals.at = "deIdentified" =>
    Load(heap, locals.deIdentifiedData) = deIdentifyData(JsonClone(ReqJson(req).v))

\* C20: deIdentifyData does not mutate its argument: across the call, the object
\* passed in, and the parsed payload it was copied from, denote the same value
\* as before, and no cell that existed before the call is written.
C20_ArgumentNotMutated ==
  [][locals.at = "copied" /\ locals'.at = "deIdentified" =>
       /\ Load(heap', locals.inputData) = Load(heap, locals.inputData)
       /\ Load(heap', locals.parsedInputData) = Load(heap, locals.parsedInputData)
       /\ SubSeq(heap', 1, Len(heap)) = heap]_vars

C20_Witness ==
  /\ locals.at = "deIdentified"
  /\ locals.inputData.t = "ref"
  /\ Load(heap, locals.deIdentifiedData) # Load(heap, locals.inputData)
  /\ \E a \in 1..Len(heap) : IsObject(heap[a]) /\ \E key \in DOMAIN heap[a].fields :
       IsIdentifyingKey(key) /\ heap[a].fields[key].t = "ref"

-----------------------------------------------------------------------------
(* Claims about the clauses that search-trials derives from the patient's facts *)

GivenFacts == Get(ReqJson(req).v, "extractedFacts")
GivenGender == Get(GivenFacts, "gender")
GenderClauses == {c \in FilterClauses : Head(c) = "AREA[Gender] "}

\* C21 as stated: Male gives AREA[Gender] Male, Female gives AREA[Gender] Female,
\* and any other gender value gives AREA[Gender] All.
C21_GenderClauseAsStated ==
  SearchIssued /\ GivenGender # Undefined =>
    IF GivenGender \in {JStr(<<"Male">>), JStr(<<"Female">>)}
      THEN GenderClauses = {<<"AREA[Gender] ">> \o ToText(GivenGender)}
      ELSE GenderClauses = {<<"AREA[Gender] ", "All">>}

\* C21, amended: Male gives AREA[Gender] Male and Female gives AREA[Gender]
\* Female; the gender 'Other' and an absent, null or empty gender give no gender
\* clause; any other gender value gives AREA[Gender] All.
C21_GenderClause ==
  SearchIssued =>
    IF GivenGender \in {JStr(<<"Male">>), JStr(<<"Female">>)}
      THEN GenderClauses = {<<"AREA[Gender] ">> \o ToText(GivenGender)}
    ELSE IF GivenGender = JStr(<<"Other">>) \/ ~Truthy(GivenGender)
      THEN GenderClauses = {}
    ELSE GenderClauses = {<<"AREA[Gender] ", "All">>}

C21_Witness ==
  /\ SearchIssued
  /\ GivenGender = JStr(<<"Other">>)
  /\ GenderClauses = {}
  /\ FilterClauses # {}

GivenKeyword == Get(GivenFilters, "conditionKeyword")
GivenConditions == Get(GivenFacts, "conditions")
GivenTerms ==
  IF IsArray(GivenConditions)
    THEN [i \in 1..Len(GivenConditions.items) |-> Get(GivenConditions.items[i], "term")]
    ELSE <<>>
ConditionClauses == {c \in FilterClauses : Head(c) = "AREA[Condition] "}

\* C22: a given conditionKeyword gives the clause AREA[Condition] <keyword>,
\* whatever the extracted terms are; without a keyword the clause is
\* AREA[Condition] followed by the extracted terms joined with ' OR ' in their
\* order; with neither a keyword nor any term there is no condition clause.
C22_ConditionClause ==
  SearchIssued =>
    IF Truthy(GivenKeyword)
      THEN ConditionClauses = {<<"AREA[Condition] ">> \o ToText(GivenKeyword)}
    ELSE IF \E i \in DOMAIN GivenTerms : Truthy(GivenTerms[i])
      THEN ConditionClauses = {<<"AREA[Condition] ">> \o JoinItems(GivenTerms, <<" OR ">>)}
    ELSE ConditionClauses = {}

GivenRadius == Get(GivenFilters, "travelRadiusMiles")
GivenZipCode == Get(GivenFacts, "zipCode")
LocationClauses == {c \in FilterClauses : Head(c) = "AREA[LocationGeoPoint] NEAR["}

\* C23: the clause AREA[LocationGeoPoint] NEAR[<zip>] <radius> miles is in the
\* filter only when both filters.travelRadiusMiles and extractedFacts.zipCode
\* are present, and then it holds exactly these two values.
C23_ProximityClause ==
  SearchIssued =>
    /\ LocationClauses # {} => GivenRadius # Undefined /\ GivenZipCode # Undefined
    /\ LocationClauses \subseteq
         { <<"AREA[LocationGeoPoint] NEAR[">> \o ToText(GivenZipCode) \o <<"] ">>
             \o ToText(GivenRadius) \o <<" miles">> }

C23_Witness ==
  /\ SearchIssued
  /\ GivenRadius = JNum(50)
  /\ GivenZipCode = JStr(<<"12345">>)
  /\ LocationClauses = {<<"AREA[LocationGeoPoint] NEAR[", "12345", "] ", "50", " miles">>}

\* The requests that differ from the request received in extractedFacts.age only.
AgeVariants ==
  LET payload == ReqJson(req).v IN
  {PostJson(JObj([k \in DOMAIN payload.fields |->
                    IF k = "extractedFacts" THEN SetAge(GivenFacts, age) ELSE payload.fields[k]])) :
     age \in FactAges}

\* C24: the patient's age does not influence the registry query: every request
\* that differs from the one received only in extractedFacts.age, age absent
\* included, makes the handler issue the same URL and the same filter.
C24_AgeDoesNotInfluenceQuery ==
  SearchIssued /\ IsObject(GivenFacts) =>
    \A other \in AgeVariants :
      /\ ~SearchBeforeFetch(other, env).done
      /\ SearchBeforeFetch(other, env).fetch = outbound[1]

C24_Witness ==
  /\ SearchIssued
  /\ Get(GivenFacts, "age") = JNum(130)
  /\ \E other \in AgeVariants : other # req /\ SearchBeforeFetch(other, env).fetch = outbound[1]
  /\ FilterClauses # {}

-----------------------------------------------------------------------------
(* Claims about what the client passes from stage to stage *)

RankCalls(cs) == {call \in cs : call.fn = "rank-summarize-trials"}

\* What a run of handleSearchAndRank is to do when its search invocation
\* returns outcome: rank exactly the non-empty array returned, with the facts
\* the search was made with; rank nothing otherwise, and on an empty list or a
\* non-array leave rankedTrials alone and become 'complete'.
RankFollows(search, outcome) ==
  IF Truthy(outcome.error) THEN NewCalls = {}
  ELSE IF IsArray(outcome.data) /\ Len(outcome.data.items) > 0
    THEN /\ Cardinality(NewCalls) = 1
         /\ \A rank \in NewCalls :
              /\ rank.fn = "rank-summarize-trials"
              /\ Get(rank.body, "trials") = outcome.data
              /\ Get(rank.body, "extractedFacts") = Get(search.body, "extractedFacts")
  ELSE /\ NewCalls = {}
       /\ page'.rankedTrials = page.rankedTrials
       /\ page'.processingStep = "complete"

\* C25: within a run of handleSearchAndRank, the rank stage is invoked only when
\* the search of that run has returned a non-empty array, with exactly that
\* array and the facts the search used; on an empty list or a non-array no rank
\* is invoked, rankedTrials stays as the run emptied it, and the step becomes
\* 'complete'.
C25_RankFollowsSearch ==
  [][/\ RankCalls(NewCalls) # {} =>
          \E search \in calls \ calls' : search.fn = "search-trials"
     /\ \A search \in calls \ calls' :
          search.fn = "search-trials" =>
            \E outcome \in OutcomesOf(search) :
              /\ RankFollows(search, outcome)
              /\ Truthy(outcome.error) <=> page'.processingStep = "error"
              /\ ~Truthy(outcome.error) =>
                   page'.rawTrials = IF IsArray(outcome.data) THEN outcome.data ELSE JArr(<<>>)
     /\ \A search \in NewCalls :
          search.fn = "search-trials" => page'.rankedTrials = JArr(<<>>)]_vars

C25_Witness ==
  /\ page.processingStep = "ranking"
  /\ \E rank \in RankCalls(calls) :
       /\ Get(rank.body, "trials") = page.rawTrials
       /\ Len(page.rawTrials.items) > 0
       /\ Get(rank.body, "extractedFacts") = page.extractedFacts

\* C26: whenever extractedFacts is non-null, it is the result of extracting the
\* current initialParsedData; a late extract response for an earlier document
\* does not install facts once a newer parse result has been accepted.
C26_FactsBelongToCurrentDocument ==
  Truthy(page.extractedFacts) => page.extractedFacts = FactsOf(page.initialParsedData)

\* C27: in every reachable state of the client, processingStep = 'error'
\* implies that errorMessage is not null.
C27_ErrorStepHasMessage ==
  page.processingStep = "error" => page.errorMessage # JNull

C27_Witness ==
  /\ page.processingStep = "error"
  /\ page.errorMessage = JStr(<<"Failed to extract facts.">>)
  /\ lastExtract = "failed"
  /\ calls # {}

-----------------------------------------------------------------------------
(* Claims about the range of the age and about the LLM call of parse-ccd *)

\* C28: in every 200 response of the parse stage a numeric demographics.age
\* lies in [2,120], an age recomputed from the birth year included.
C28_AgeWithinRange ==
  ParseSucceeded =>
    LET age == Get(Get(ParseResult, "demographics"), "age") IN
    age.t = "number" => age.n \in 2..120

\* C29: every 200 response of the parse stage to a POST is preceded by exactly
\* one outbound LLM request and is built from the LLM's answer; no request
\* content makes the stage answer 200 without calling the LLM.
C29_Parse200ComesFromLlm ==
  fn = "parse-ccd" /\ req.method = "POST" /\ pc = "responded" /\ resp.status = 200 =>
    /\ Len(outbound) = 1
    /\ outbound[1].service = "llm"
    /\ upstream.arrives /\ upstream.ok
    /\ resp = ParseAfterFetch(upstream, req, env)

-----------------------------------------------------------------------------
(* Claims about a rank request without trials *)

\* A POST to the rank stage whose JSON payload is an object that has no trials
\* member, or has it null.
MissingTrialsRequest ==
  /\ fn = "rank-summarize-trials"
  /\ req.method = "POST"
  /\ req.body.present
  /\ ReqJson(req).ok
  /\ IsObject(ReqJson(req).v)
  /\ IsNullish(Get(ReqJson(req).v, "trials"))

\* C30: a rank request whose payload has no trials member, or has it null, is
\* answered like an empty trial list: 200 with [] and no outbound LLM request.
C30_MissingTrialsShortCircuit ==
  MissingTrialsRequest =>
    /\ outbound = <<>>
    /\ pc # "awaiting"
    /\ pc = "responded" => (resp.status = 200 /\ ResponseJson(resp) = Ok(JArr(<<>>)))

=============================================================================
